---- MODULE Spec2Model ----
(***************************************************************************)
(* A state-machine model of src/minute_extractor.py: the parallel,         *)
(* resumable crawler (seed scheduler, robots registry, per-host rate       *)
(* limiter, manifest journal, resume index, seed revalidation, per-seed    *)
(* BFS with file download).                                                *)
(*                                                                         *)
(* One step of a thread is one access to shared state (a lock region, a    *)
(* network request, a disk write, a journal append, a clock read) together *)
(* with the purely local computation that follows it up to the next such   *)
(* access.                                                                 *)
(***************************************************************************)
EXTENDS Integers, Sequences, FiniteSets, TLC

\* ------------------------------------------------------------------------
\* Bounds of the model
\* ------------------------------------------------------------------------
\* The wall clock stops advancing at MaxTime.
MaxTime == 3
\* Calls a thread makes in the limiter and the registry harnesses.
MaxCalls == 2
\* Process runs over one manifest in the rerun specification.
MaxRuns == 2

\* The pool's threads, in the order the pool starts them.
WorkerIds == <<"w1", "w2">>
Workers == {WorkerIds[i] : i \in 1..Len(WorkerIds)}

\* ------------------------------------------------------------------------
\* Values
\* ------------------------------------------------------------------------
\* Optional[T]: None is the empty tuple, a present value x is <<x>>.
None == << >>
Some(x) == <<x>>

Max(a, b) == IF a >= b THEN a ELSE b

\* Python's  a or b or c  on strings.
Or3(a, b, c) == IF a # "" THEN a ELSE IF b # "" THEN b ELSE c

\* A URL is its netloc, its path split at "/" (a trailing "" segment is a
\* trailing slash; the empty tuple is the empty path) and its fragment.
U(h, p, f) == [host |-> h, path |-> p, frag |-> f]
NoUrl == U("", << >>, "")

\* normalize_url: strip and drop the fragment (urldefrag).
normalize_url(u) == [u EXCEPT !.frag = ""]

\* RobotsManager._robots_url: <scheme>://<netloc>/robots.txt
RobotsUrl(u) == U(u.host, <<"robots.txt">>, "")

\* safe_name: the names used here hold none of the replaced characters, no
\* whitespace runs and fewer than 80 characters, so they come back unchanged.
safe_name(s) == s

\* Path(urlparse(u).path).suffix on the path's last segment.
PdfSegments == {"m.pdf", "r.pdf", "n.pdf"}
Suffix(u) ==
  IF u.path = << >> THEN ""
  ELSE IF u.path[Len(u.path)] \in PdfSegments THEN ".pdf" ELSE ""

\* The URL holds one of the url_hints substrings.
HintSegments == {"gijiroku"}
UrlHasHint(u) == \E i \in 1..Len(u.path) : u.path[i] \in HintSegments

\* low.startswith(("mailto:", "javascript:", "tel:"))
NotHttp(u) == u.host = "" /\ u.path # << >> /\ u.path[1] \in {"mailto:a", "tel:1"}

\* looks_like_minutes_link: extension, URL hint, keyword in the anchor text
\* (kw), keyword in the URL (no URL of the model holds a keyword).
looks_like_minutes_link(url, kw, file_exts) ==
  \/ Suffix(url) \in file_exts
  \/ UrlHasHint(url)
  \/ kw

\* is_probably_binary on the content types the model's servers send.
is_probably_binary(ct) ==
  ct \in {"application/pdf", "application/msword", "application/vnd.ms-excel",
          "application/zip", "application/octet-stream"}

\* guess_ext_from_content_type; "" stands for None (both are falsy).
guess_ext_from_content_type(ct) ==
  CASE ct = "application/pdf" -> ".pdf"
    [] ct = "application/zip" -> ".zip"
    [] ct = "application/msword" -> ".doc"
    [] ct = "text/plain" -> ".txt"
    [] ct = "text/csv" -> ".csv"
    [] OTHER -> ""

\* pu.path.startswith(base_prefix), base_prefix = parsed0.path.rstrip("/") + "/"
RECURSIVE RStrip(_)
RStrip(p) == IF p # << >> /\ p[Len(p)] = "" THEN RStrip(SubSeq(p, 1, Len(p) - 1)) ELSE p
UnderPrefix(p, seedpath) ==
  LET b == RStrip(seedpath)
  IN Len(p) > Len(b) /\ SubSeq(p, 1, Len(b)) = b

\* out_dir/safe_name(prefecture)/safe_name(city)/<dir>/<sha1_hex(url)><ext>;
\* the URL stands for its SHA-1 (one name per URL).
SavePath(prefecture, city, dir, url, ext) ==
  [pref |-> safe_name(prefecture), city |-> safe_name(city), dir |-> dir,
   name |-> url, ext |-> ext]

\* A parsed robots policy: the paths it disallows for the configured user
\* agent and its Crawl-delay (None when the file states none).
Policy(deny, delay) == [deny |-> deny, delay |-> delay]
RobotsFailed == [failed |-> TRUE]

\* A robots.txt as served has the shape of a policy, its delay being the
\* text of the Crawl-delay line: a decimal number, whole.tenths.
Decimal(whole, tenths) == [whole |-> whole, tenths |-> tenths]

\* RobotFileParser.parse keeps a Crawl-delay only when its text is all
\* digits (int(text)); any other text leaves the policy without a delay.
rp_parse(txt) ==
  Policy(txt.deny,
         IF txt.delay # None /\ txt.delay[1].tenths = 0
         THEN Some(txt.delay[1].whole) ELSE None)

\* RobotFileParser.can_fetch on a parsed policy.
RpCanFetch(rp, u) == u.path \notin rp.deny

\* FetchResult of a successful exchange, and the raised errors.
Body(sha, links, bad) == [sha |-> sha, links |-> links, bad |-> bad]
NoBody == Body("", << >>, FALSE)
Ok(final, ct, body, etag, lm) ==
  [status |-> "ok", final_url |-> final, content_type |-> ct, body |-> body,
   etag |-> etag, last_modified |-> lm]
Err(kind) ==
  [status |-> kind, final_url |-> NoUrl, content_type |-> "", body |-> NoBody,
   etag |-> "", last_modified |-> ""]
Link(href, kw) == [href |-> href, kw |-> kw]

\* seed_meta entries.
Meta(et, lm, sha) == [etag |-> et, last_modified |-> lm, content_sha1 |-> sha]
EmptyMeta == Meta("", "", "")

VARIABLES
  cfg,          \* CrawlConfig and the run's flags (fixed for a run)
  env,          \* the environment: seed records, robots.txt answers, pages, disk
  manifest,     \* the journal file: the sequence of records appended so far
  disk,         \* the paths written under the output directory
  cache,        \* ManifestCache: the resume index
  robots,       \* RobotsManager: _cache and _cache_fail
  next_allowed, \* DomainRateLimiter._next_allowed
  report,       \* RobotsDisallowReport: _seen and entries
  counters,     \* total_found_links, skipped_seed_count
  pool,         \* main thread: its position, the task queue, the futures
  clock,        \* time.time()
  requests,     \* the requests that reached the network (the servers' log)
  local         \* each worker thread's program counter and local variables

vars == <<cfg, env, manifest, disk, cache, robots, next_allowed, report, counters,
          pool, clock, requests, local>>

\* ------------------------------------------------------------------------
\* Worker-local state
\* ------------------------------------------------------------------------
NoTask == [prefecture |-> "", city |-> "", mode |-> "", seed |-> NoUrl]
NoRec == [event |-> ""]

Local0 ==
  [pc |-> "idle", fut |-> 0, task |-> NoTask, ncall |-> 0, nreq |-> 0,
   \* what the servers' log records with a request of this thread
   waited |-> None,                 \* host of the wait() called since its last request
   chk |-> None,                    \* its last can_fetch: the URL and the answer
   \* RobotsManager call in progress
   gp_url |-> NoUrl, gp_op |-> "", gp_ret |-> "", gp_rp |-> None,
   gp_after_fail |-> FALSE,         \* the call began after a load failure was journaled
   allowed |-> TRUE, rd |-> None,   \* what can_fetch / crawl_delay returned
   \* DomainRateLimiter.wait call in progress
   w_url |-> NoUrl, w_delay |-> 0, w_now |-> 0, w_until |-> 0, w_ret |-> "",
   ret_at |-> 0,                    \* the instant its last wait() returned
   \* where the thread is in process_seed / crawl_and_collect
   site |-> "", cur |-> NoUrl, what |-> "", rec |-> NoRec, after |-> "",
   \* process_seed
   seed |-> NoUrl, prev_meta |-> None, changed |-> FALSE, new_meta |-> EmptyMeta,
   result |-> [cnt |-> 0, raised |-> FALSE],
   \* crawl_and_collect
   start_url |-> NoUrl, visited_pages |-> {}, queued |-> << >>, pages_fetched |-> 0,
   found_minutes |-> << >>, found_set |-> {},
   url |-> NoUrl, depth |-> 0, res |-> Err(""), final_page_url |-> NoUrl,
   file_final |-> NoUrl, links |-> << >>, abs_url |-> NoUrl,
   \* the locks the thread holds and what is left of the step it is in, at
   \* the grain of acquire / release
   held |-> {}, ops |-> << >>]

\* A thread that ended a task (or a harness call) keeps only its counters.
Reset(l) == [Local0 EXCEPT !.ncall = l.ncall, !.nreq = l.nreq]

\* ------------------------------------------------------------------------
\* ManifestWriter.write: one whole line appended under the lock
\* ------------------------------------------------------------------------
\* (Faulty variant WriteOverLast: the file is rewritten from a stale end.)
WriteOverLast(rec) ==
  manifest' = IF manifest = << >> THEN <<rec>>
              ELSE [manifest EXCEPT ![Len(manifest)] = rec]
Write(rec) == manifest' = Append(manifest, rec)

Journaled(ev, h) ==
  \E i \in 1..Len(manifest) : manifest[i].event = ev /\ manifest[i].netloc = h

\* ------------------------------------------------------------------------
\* load_manifest_cache: replay of the journal into the resume index
\* ------------------------------------------------------------------------
EmptyCache ==
  [downloaded_file_urls |-> {}, saved_page_urls |-> {}, completed_seeds |-> {},
   seed_meta |-> << >>]

\* dict.get / dict[k] = v on seed_meta, a function on its keys
MetaGet(sm, k) == IF k \in DOMAIN sm THEN Some(sm[k]) ELSE None
\* Faulty variant MetaPutFirst: the first value of a key is kept.
MetaPutFirst(sm, k, v) ==
  [x \in (DOMAIN sm) \cup {k} |-> IF x \in DOMAIN sm THEN sm[x] ELSE v]
MetaPut(sm, k, v) == [x \in (DOMAIN sm) \cup {k} |-> IF x = k THEN v ELSE sm[x]]

\* Faulty variant: a replay that keeps only the seed_done lines.
ReplayLineNoFiles(c, obj) ==
  IF obj.event = "seed_done" /\ obj.seed_url # NoUrl
  THEN [c EXCEPT !.completed_seeds = @ \cup {normalize_url(obj.seed_url)}]
  ELSE c

ReplayLine(c, obj) ==
  CASE obj.event = "downloaded_file" ->
         IF obj.file_url # NoUrl
         THEN [c EXCEPT !.downloaded_file_urls = @ \cup {normalize_url(obj.file_url)}]
         ELSE c
    [] obj.event = "saved_page" ->
         IF obj.page_url # NoUrl
         THEN [c EXCEPT !.saved_page_urls = @ \cup {normalize_url(obj.page_url)}]
         ELSE c
    [] obj.event = "seed_done" ->
         IF obj.seed_url # NoUrl
         THEN [c EXCEPT !.completed_seeds = @ \cup {normalize_url(obj.seed_url)}]
         ELSE c
    [] obj.event = "seed_state" ->
         IF obj.seed_url # NoUrl
         THEN [c EXCEPT !.seed_meta =
                 MetaPut(@, normalize_url(obj.seed_url),
                         Meta(obj.etag, obj.last_modified, obj.content_sha1))]
         ELSE c
    [] OTHER -> c

\* A line of the file that is no complete JSON text (the tail of an
\* interrupted write) and a line of white space.
TornLine == [torn |-> TRUE]
BlankLine == [blank |-> TRUE]

\* lines 491-498: strip, skip an empty line, json.loads, skip on failure.
json_loads(line) == IF line \in {TornLine, BlankLine} THEN None ELSE Some(line)

RECURSIVE Replay(_, _)
Replay(c, lines) ==
  IF lines = << >> THEN c
  ELSE LET obj == json_loads(Head(lines))
       IN Replay(IF obj = None THEN c ELSE ReplayLine(c, obj[1]), Tail(lines))

load_manifest_cache(file) == Replay(EmptyCache, file)

\* ------------------------------------------------------------------------
\* Seed scheduler: choose_seed_urls, the task list, round_robin_by_netloc
\* ------------------------------------------------------------------------
\* A url -> count dict is the sequence of its items in insertion order.
RECURSIVE sum_counts(_)
sum_counts(d) == IF d = << >> THEN 0 ELSE Head(d).count + sum_counts(Tail(d))

\* (Faulty variant ChooseAboveThreshold: the sum has to exceed the threshold.)
ChooseAboveThreshold(record, threshold) ==
  IF sum_counts(record.parent) > threshold /\ record.parent # << >>
  THEN [mode |-> "parent", url_map |-> record.parent]
  ELSE [mode |-> "grand_parent", url_map |-> record.grand_parent]
choose_seed_urls(record, threshold) ==
  IF sum_counts(record.parent) >= threshold /\ record.parent # << >>
  THEN [mode |-> "parent", url_map |-> record.parent]
  ELSE [mode |-> "grand_parent", url_map |-> record.grand_parent]

\* seed_urls = [normalize_url(u) for u in url_map.keys() if u]
RECURSIVE SeedUrls(_)
SeedUrls(url_map) ==
  IF url_map = << >> THEN << >>
  ELSE IF Head(url_map).url = NoUrl THEN SeedUrls(Tail(url_map))
  ELSE <<normalize_url(Head(url_map).url)>> \o SeedUrls(Tail(url_map))

TasksOf(rec, mode, seed_urls) ==
  [i \in 1..Len(seed_urls) |->
     [prefecture |-> rec.prefecture, city |-> rec.city, mode |-> mode,
      seed |-> seed_urls[i]]]

\* main lines 1111-1143: the records' tasks and the records' journal lines.
RECURSIVE BuildTasks(_, _)
BuildTasks(records, threshold) ==
  IF records = << >> THEN [tasks |-> << >>, lines |-> << >>]
  ELSE LET rec == Head(records)
           rest == BuildTasks(Tail(records), threshold)
           ch == choose_seed_urls(rec, threshold)
           seed_urls == SeedUrls(ch.url_map)
           city_start == [event |-> "city_start", prefecture |-> rec.prefecture,
                          city |-> rec.city, mode |-> ch.mode,
                          seed_count |-> Len(seed_urls)]
           city_skip == [event |-> "city_skip_no_seed", prefecture |-> rec.prefecture,
                         city |-> rec.city]
       IN IF rec.prefecture = "" \/ rec.city = "" THEN rest
          ELSE IF seed_urls = << >>
          THEN [tasks |-> rest.tasks, lines |-> <<city_start, city_skip>> \o rest.lines]
          ELSE [tasks |-> TasksOf(rec, ch.mode, seed_urls) \o rest.tasks,
                lines |-> <<city_start>> \o rest.lines]

\* The netlocs of the tasks in order of first appearance (the dict's keys).
RECURSIVE NetlocKeys(_, _)
NetlocKeys(tasks, seen) ==
  IF tasks = << >> THEN << >>
  ELSE LET k == Head(tasks).seed.host
       IN IF k \in seen THEN NetlocKeys(Tail(tasks), seen)
          ELSE <<k>> \o NetlocKeys(Tail(tasks), seen \cup {k})

Bucket(tasks, k) == SelectSeq(tasks, LAMBDA t : t.seed.host = k)

\* One pass of the for loop over keys: what it appends, and next_keys.
RECURSIVE RoundOf(_, _)
RoundOf(keys, buckets) ==
  IF keys = << >> THEN [ordered |-> << >>, next_keys |-> << >>, buckets |-> buckets]
  ELSE LET k == Head(keys)
           popped == buckets[k] # << >>
           b1 == IF popped THEN [buckets EXCEPT ![k] = Tail(@)] ELSE buckets
           r == RoundOf(Tail(keys), b1)
       IN [ordered |-> (IF popped THEN <<Head(buckets[k])>> ELSE << >>) \o r.ordered,
           next_keys |-> (IF b1[k] # << >> THEN <<k>> ELSE << >>) \o r.next_keys,
           buckets |-> r.buckets]

RECURSIVE Rounds(_, _)
Rounds(keys, buckets) ==
  IF keys = << >> THEN << >>
  ELSE LET r == RoundOf(keys, buckets)
       IN r.ordered \o Rounds(r.next_keys, r.buckets)

\* (Faulty variant KeepInputOrder: the tasks are not reordered.)
KeepInputOrder(tasks) == tasks
round_robin_by_netloc(tasks) ==
  LET all == NetlocKeys(tasks, {})
      keys == SelectSeq(all, LAMBDA k : k # "")
      hosts == {all[i] : i \in 1..Len(all)}
      buckets == [k \in hosts |-> Bucket(tasks, k)]
  IN Rounds(keys, buckets) \o Bucket(tasks, "")

\* ------------------------------------------------------------------------
\* The network and the disk
\* ------------------------------------------------------------------------
\* What a GET of u returns: the site's answer, 404 for a URL it does not have.
Response(u) == IF u \in DOMAIN env.site THEN env.site[u] ELSE Err("HTTPError")

\* A conditional GET: a server that honours validators answers 304 when one
\* sent with the request matches the page's.
ConditionalResponse(u, inm, ims) ==
  LET r == Response(u)
  IN IF /\ r.status = "ok"
        /\ env.conditional
        /\ \/ inm # "" /\ inm = r.etag
           \/ ims # "" /\ ims = r.last_modified
     THEN Err("HTTPError304")
     ELSE r

\* fetch_url as the network sees it: the request is logged with the
\* requesting thread, the instant, whether that thread called the limiter
\* for the host since its previous request, and whether its last can_fetch
\* was for this URL and answered false.
Request(w, kind, u) ==
  [kind |-> kind, url |-> u, by |-> w, n |-> local[w].nreq, at |-> clock,
   waited |-> (local[w].waited = Some(u.host)),
   denied |-> (local[w].chk = Some([url |-> u, ok |-> FALSE]))]

Requested(l) == [l EXCEPT !.nreq = @ + 1, !.waited = None, !.chk = None]

\* ------------------------------------------------------------------------
\* Journal records
\* ------------------------------------------------------------------------
SeedRec(l, ev) ==
  [event |-> ev, prefecture |-> l.task.prefecture, city |-> l.task.city,
   mode |-> l.task.mode, seed_url |-> l.seed]
SeedDoneRec(l) ==
  [event |-> "seed_done", prefecture |-> l.task.prefecture, city |-> l.task.city,
   mode |-> l.task.mode, seed_url |-> l.seed, found_count |-> Len(l.found_minutes)]
SeedStateRec(l) ==
  [event |-> "seed_state", seed_url |-> l.seed, etag |-> l.new_meta.etag,
   last_modified |-> l.new_meta.last_modified,
   content_sha1 |-> l.new_meta.content_sha1]
UrlRec(l, ev, u) ==
  [event |-> ev, prefecture |-> l.task.prefecture, city |-> l.task.city, url |-> u]
FileRec(l, ev, u) ==
  [event |-> ev, prefecture |-> l.task.prefecture, city |-> l.task.city, file_url |-> u]
PageRec(l, ev, u) ==
  [event |-> ev, prefecture |-> l.task.prefecture, city |-> l.task.city, page_url |-> u]
SavedRec(l, ev, field_url, path) ==
  IF ev = "downloaded_file"
  THEN [event |-> ev, prefecture |-> l.task.prefecture, city |-> l.task.city,
        file_url |-> field_url, path |-> path]
  ELSE [event |-> ev, prefecture |-> l.task.prefecture, city |-> l.task.city,
        page_url |-> field_url, path |-> path]
FoundRec(l, u) ==
  [event |-> "found_minutes_link", prefecture |-> l.task.prefecture,
   city |-> l.task.city, source_page |-> l.final_page_url, link_url |-> u]

\* The thread's next shared access is state.manifest.write(rec); `after`
\* names where the code goes from there.
Log(l, rec, after) == [l EXCEPT !.pc = "log", !.rec = rec, !.after = after]

\* ------------------------------------------------------------------------
\* RobotsManager.can_fetch / crawl_delay, effective_delay: the caller's side
\* ------------------------------------------------------------------------
CallRobots(l, op, u, ret) ==
  [l EXCEPT !.pc = "gp_lookup", !.gp_op = op, !.gp_url = normalize_url(u),
            !.gp_ret = ret,
            !.gp_after_fail = Journaled("robots_load_failed_allow_all", u.host)]

\* effective_delay lines 546-549: ask the registry only when robots are respected.
StartDelay(l) ==
  IF cfg.respect_robots
  THEN CallRobots(l, "crawl_delay", l.cur, "delay_ret")
  ELSE [l EXCEPT !.pc = "delay_ret", !.rd = None]

\* Faulty variant: callers that go on whatever can_fetch answered.
AfterCanFetchAllowed(l) ==
  IF l.site = "link" THEN [l EXCEPT !.pc = "check", !.what = "link_pre"]
  ELSE StartDelay(l)

\* What the three callers of can_fetch do with its answer:
\* process_seed 1167-1181, crawl_and_collect 669-681 and 831-843.
AfterCanFetch(l) ==
  CASE l.site = "seed" ->
         IF ~l.allowed
         THEN Log(l, SeedRec(l, "skip_seed_already_done_robots_disallow"), "count")
         ELSE StartDelay(l)
    [] l.site = "page" ->
         IF ~l.allowed THEN [l EXCEPT !.pc = "report_add"] ELSE StartDelay(l)
    [] l.site = "link" ->
         IF ~l.allowed THEN [l EXCEPT !.pc = "report_add"]
         ELSE [l EXCEPT !.pc = "check", !.what = "link_pre"]

\* can_fetch 417-425 / crawl_delay 427-438 on what _get_parser returned
\* (None or a policy), and the return to the caller.
GpAnswer(l, rp) ==
  LET ok == IF rp = None THEN TRUE ELSE RpCanFetch(rp[1], l.gp_url)
      l1 == [l EXCEPT !.pc = l.gp_ret,
                      !.gp_rp = None,
                      !.allowed = IF l.gp_op = "can_fetch" THEN ok ELSE @,
                      !.chk = IF l.gp_op = "can_fetch"
                              THEN Some([url |-> l.gp_url, ok |-> ok]) ELSE @,
                      !.rd = IF l.gp_op = "crawl_delay"
                             THEN (IF rp = None THEN None ELSE rp[1].delay)
                             ELSE @]
  IN IF l.gp_ret = "can_fetch_ret" THEN AfterCanFetch(l1) ELSE l1

\* ------------------------------------------------------------------------
\* RobotsManager._get_parser
\* ------------------------------------------------------------------------
\* lines 373-382: the cache lookup under the lock.
GetParserLookup(w) ==
  /\ local[w].pc = "gp_lookup"
  /\ LET l == local[w]
         netloc == l.gp_url.host
     IN local' = [local EXCEPT ![w] =
          IF netloc = "" THEN GpAnswer(l, None)
          ELSE IF robots.cache[netloc] # None THEN GpAnswer(l, robots.cache[netloc])
          ELSE IF netloc \in robots.fail THEN GpAnswer(l, None)
          ELSE [l EXCEPT !.pc = "gp_fetch"]]
  /\ UNCHANGED <<cfg, env, manifest, disk, cache, robots, next_allowed, report,
                 counters, pool, clock, requests>>

\* lines 384-391: GET robots.txt and parse it, outside the lock.
GetParserFetch(w) ==
  /\ local[w].pc = "gp_fetch"
  /\ LET l == local[w]
     IN \E out \in env.robots[l.gp_url.host] :
          /\ requests' = requests \cup {Request(w, "robots", RobotsUrl(l.gp_url))}
          /\ local' = [local EXCEPT ![w] =
               [Requested(l) EXCEPT !.pc = "gp_store",
                  !.gp_rp = IF out = RobotsFailed THEN None ELSE Some(rp_parse(out))]]
  /\ UNCHANGED <<cfg, env, manifest, disk, cache, robots, next_allowed, report,
                 counters, pool, clock>>

\* lines 393-394 and 405-406: publish the outcome under the lock.
GetParserStore(w) ==
  /\ local[w].pc = "gp_store"
  /\ LET l == local[w]
         netloc == l.gp_url.host
     IN /\ robots' = IF l.gp_rp # None
                     THEN [robots EXCEPT !.cache[netloc] = l.gp_rp]
                     ELSE [robots EXCEPT !.fail = @ \cup {netloc}]
        /\ local' = [local EXCEPT ![w].pc = "gp_log"]
  /\ UNCHANGED <<cfg, env, manifest, disk, cache, next_allowed, report, counters,
                 pool, clock, requests>>

\* lines 396-402 and 408-415: journal the outcome and return.
GetParserLog(w) ==
  /\ local[w].pc = "gp_log"
  /\ LET l == local[w]
     IN /\ Write([event |-> IF l.gp_rp # None THEN "robots_loaded"
                            ELSE "robots_load_failed_allow_all",
                  netloc |-> l.gp_url.host])
        /\ local' = [local EXCEPT ![w] = GpAnswer(l, l.gp_rp)]
  /\ UNCHANGED <<cfg, env, disk, cache, robots, next_allowed, report, counters,
                 pool, clock, requests>>

\* ------------------------------------------------------------------------
\* DomainRateLimiter.wait
\* ------------------------------------------------------------------------
\* lines 455-458: the early return, else read the clock.
CallWait(l, u, delay, ret) ==
  IF u.host = "" \/ delay <= 0
  THEN [l EXCEPT !.pc = ret, !.waited = Some(u.host), !.ret_at = clock]
  ELSE [l EXCEPT !.pc = "w_lock", !.waited = Some(u.host), !.w_url = u,
                 !.w_delay = delay, !.w_now = clock, !.w_ret = ret]

WaitReturn(l) == [l EXCEPT !.pc = l.w_ret, !.ret_at = clock]

\* (Faulty variant WaitLockFromNow: the slot is counted from the caller's
\* clock reading, whatever the map holds.)
WaitLockFromNow(w) ==
  /\ local[w].pc = "w_lock"
  /\ next_allowed' = [next_allowed EXCEPT ![local[w].w_url.host] =
                        Some(local[w].w_now + local[w].w_delay)]
  /\ local' = [local EXCEPT ![w] = WaitReturn(local[w])]
  /\ UNCHANGED <<cfg, env, manifest, disk, cache, robots, report, counters, pool,
                 clock, requests>>

\* lines 459-463: reserve the slot under the lock.
WaitLock(w) ==
  /\ local[w].pc = "w_lock"
  /\ LET l == local[w]
         netloc == l.w_url.host
         now == l.w_now
         nxt == IF next_allowed[netloc] = None THEN now ELSE next_allowed[netloc][1]
         sleep_for == Max(0, nxt - now)
         base == Max(now, nxt)
     IN /\ next_allowed' = [next_allowed EXCEPT ![netloc] = Some(base + l.w_delay)]
        /\ local' = [local EXCEPT ![w] =
             IF sleep_for > 0
             THEN [l EXCEPT !.pc = "w_sleep", !.w_until = clock + sleep_for]
             ELSE WaitReturn(l)]
  /\ UNCHANGED <<cfg, env, manifest, disk, cache, robots, report, counters, pool,
                 clock, requests>>

\* lines 464-465: time.sleep(sleep_for) returns no earlier than asked.
WaitSleep(w) ==
  /\ local[w].pc = "w_sleep"
  /\ clock >= local[w].w_until
  /\ local' = [local EXCEPT ![w] = WaitReturn(local[w])]
  /\ UNCHANGED <<cfg, env, manifest, disk, cache, robots, next_allowed, report,
                 counters, pool, clock, requests>>

\* Wall-clock time passes.
Tick ==
  /\ clock < MaxTime
  /\ clock' = clock + 1
  /\ UNCHANGED <<cfg, env, manifest, disk, cache, robots, next_allowed, report,
                 counters, pool, requests, local>>

\* ------------------------------------------------------------------------
\* crawl_and_collect: the local computation between two shared accesses
\* ------------------------------------------------------------------------
\* urljoin(final_page_url, href): an absolute or non-http href is itself, a
\* root-relative one takes the page's netloc.
UrlJoin(base, href) ==
  IF href.host # "" \/ NotHttp(href) THEN href ELSE [href EXCEPT !.host = base.host]

\* lines 664 and 908: outside the seed's path prefix and not the seed's path.
OffPrefix(l, u) ==
  /\ cfg.same_path_prefix_only
  /\ u.path # << >>
  /\ ~UnderPrefix(u.path, l.start_url.path)
  /\ u.path # l.start_url.path

\* lines 661 and 807
\* (Faulty variant OffDomainNever: the host is not compared.)
OffDomainNever(l, u) == FALSE
OffDomain(l, u) == cfg.same_domain_only /\ u.host # "" /\ u.host # l.start_url.host

\* lines 906-910: the tests a link that is not minutes-like passes before
\* it is appended to the queue.
\* (Faulty variant MayEnqueueAnyDepth: the depth is not compared.)
MayEnqueueAnyDepth(l, abs_url) ==
  ~OffPrefix(l, abs_url) /\ abs_url \notin l.visited_pages
MayEnqueue(l, abs_url) ==
  /\ l.depth < cfg.max_depth
  /\ ~OffPrefix(l, abs_url)
  /\ abs_url \notin l.visited_pages

\* line 652: the while condition, negated.
\* (Faulty variant LoopEndsOnEmpty: the page counter is not compared.)
LoopEndsOnEmpty(l) == l.queued = << >>
LoopEnds(l) == l.queued = << >> \/ l.pages_fetched >= cfg.max_pages

RECURSIVE LoopHead(_), LinksHead(_)

\* (Faulty variant DownloadHeadAlsoQueued: a minutes-like link goes on to
\* the queue as well.)
DownloadHeadAlsoQueued(l) ==
  LinksHead([l EXCEPT !.queued = Append(@, [url |-> l.abs_url, depth |-> l.depth + 1])])

\* lines 826-843: the download branch of a minutes-like link, up to the
\* robots check or the first look at the resume index.
DownloadHead(l) ==
  IF cfg.download_files /\ Suffix(l.abs_url) \in cfg.file_exts
  THEN IF cfg.respect_robots
       THEN CallRobots(l, "can_fetch", l.abs_url, "can_fetch_ret")
       ELSE [l EXCEPT !.pc = "check", !.what = "link_pre"]
  ELSE LinksHead(l)

\* lines 798-823 and 906-911: the for loop over the page's links, up to the
\* next journal line, robots check or index lookup.
LinksHead(l) ==
  IF l.links = << >> THEN LoopHead(l)
  ELSE LET lk == Head(l.links)
           abs_url == normalize_url(UrlJoin(l.final_page_url, lk.href))
           l1 == [l EXCEPT !.links = Tail(@), !.abs_url = abs_url, !.cur = abs_url,
                           !.site = "link"]
       IN IF abs_url = NoUrl THEN LinksHead(l1)
          ELSE IF NotHttp(abs_url) THEN LinksHead(l1)
          ELSE IF OffDomain(l, abs_url) THEN LinksHead(l1)
          ELSE IF looks_like_minutes_link(abs_url, lk.kw, cfg.file_exts)
          THEN IF abs_url \notin l.found_set
               THEN Log([l1 EXCEPT !.found_set = @ \cup {abs_url},
                                   !.found_minutes = Append(@, abs_url)],
                        FoundRec(l, abs_url), "download")
               ELSE DownloadHead(l1)
          ELSE IF MayEnqueue(l, abs_url)
          THEN LinksHead([l1 EXCEPT
                 !.queued = Append(@, [url |-> abs_url, depth |-> l.depth + 1])])
          ELSE LinksHead(l1)

\* lines 652-681: the while loop's head, up to the robots check, the
\* limiter, or the loop's end (process_seed then journals seed_done).
LoopHead(l) ==
  IF LoopEnds(l)
  THEN Log(l, SeedDoneRec(l), "done_add")
  ELSE LET url == normalize_url(Head(l.queued).url)
           l1 == [l EXCEPT !.queued = Tail(@), !.url = url,
                           !.depth = Head(l.queued).depth, !.cur = url,
                           !.site = "page"]
           l2 == [l1 EXCEPT !.visited_pages = @ \cup {url}]
       IN IF url \in l.visited_pages THEN LoopHead(l1)
          ELSE IF OffDomain(l, url) THEN LoopHead(l2)
          ELSE IF OffPrefix(l, url) THEN LoopHead(l2)
          ELSE IF cfg.respect_robots
          THEN CallRobots(l2, "can_fetch", url, "can_fetch_ret")
          ELSE StartDelay(l2)

\* lines 640-650
CrawlStart(l) ==
  LoopHead([l EXCEPT !.start_url = normalize_url(l.seed),
                     !.visited_pages = {},
                     !.queued = <<[url |-> normalize_url(l.seed), depth |-> 0]>>,
                     !.pages_fetched = 0,
                     !.found_minutes = << >>,
                     !.found_set = {}])

\* lines 791-796: LinkExtractor.feed; a page it cannot parse is dropped.
Parse(l) ==
  IF l.res.body.bad THEN LoopHead(l)
  ELSE LinksHead([l EXCEPT !.links = l.res.body.links])

\* (Faulty variant ContinueDoneAfterSkip: a skipped seed is journaled as
\* done as well.)
ContinueDoneAfterSkip(l) ==
  CASE l.after = "loop" -> LoopHead(l)
    [] l.after = "links" -> LinksHead(l)
    [] l.after = "download" -> DownloadHead(l)
    [] l.after = "parse" -> Parse(l)
    [] l.after = "crawl" -> CrawlStart(l)
    [] l.after = "count" -> Log(l, SeedDoneRec(l), "done_add")
    [] l.after = "state_cache" -> [l EXCEPT !.pc = "add", !.what = "seed_meta"]
    [] l.after = "done_add" -> [l EXCEPT !.pc = "add", !.what = "completed"]

\* Where the code goes after a journal line.
Continue(l) ==
  CASE l.after = "loop" -> LoopHead(l)
    [] l.after = "links" -> LinksHead(l)
    [] l.after = "download" -> DownloadHead(l)
    [] l.after = "parse" -> Parse(l)
    [] l.after = "crawl" -> CrawlStart(l)
    [] l.after = "count" -> [l EXCEPT !.pc = "count"]
    [] l.after = "state_cache" -> [l EXCEPT !.pc = "add", !.what = "seed_meta"]
    [] l.after = "done_add" -> [l EXCEPT !.pc = "add", !.what = "completed"]

\* lines 739-741, 775-776, 874-879: the file a body is saved to.
FileExt(l) ==
  IF l.what = "bin"
  THEN Or3(guess_ext_from_content_type(l.res.content_type), Suffix(l.file_final), ".bin")
  ELSE IF Suffix(l.file_final) # "" THEN Suffix(l.file_final)
  ELSE Or3(guess_ext_from_content_type(l.res.content_type), Suffix(l.abs_url), ".bin")

SaveTarget(l) ==
  IF l.what = "page"
  THEN SavePath(l.task.prefecture, l.task.city, "pages", l.final_page_url, ".html")
  ELSE SavePath(l.task.prefecture, l.task.city, "files", l.file_final, FileExt(l))

\* lines 729, 843, 863 and 765: the resume shortcuts.
\* (Faulty variant AlreadyDownloadedForced: --force-download is not consulted.)
AlreadyDownloadedForced(u) == cfg.resume /\ u \in cache.downloaded_file_urls
AlreadyDownloaded(u) ==
  cfg.resume /\ ~cfg.force_download /\ u \in cache.downloaded_file_urls
AlreadySaved(u) == cfg.resume /\ u \in cache.saved_page_urls

\* lines 738-742, 774-777, 874-880: the body goes to disk next.
\* (Faulty variant SkipSave: the write is left out.)
SkipSave(l) == [l EXCEPT !.pc = "add"]
ToSave(l) == [l EXCEPT !.pc = "save"]

\* fetch_seed_state lines 592-621 on the exchange's outcome.
\* (Faulty variant SeedStateByBodyOnly: the validators are not compared.
\* Faulty variant SeedStateErrorUnchanged: a failed request counts as
\* unchanged.)
SeedStateByBodyOnly(prev_meta, res) ==
  LET fallback == IF prev_meta # None THEN prev_meta[1] ELSE EmptyMeta
      new_meta == Meta(res.etag, res.last_modified, res.body.sha)
  IN IF res.status = "ok"
     THEN [changed |-> ~(fallback.content_sha1 # ""
                         /\ fallback.content_sha1 = new_meta.content_sha1),
           new_meta |-> new_meta]
     ELSE [changed |-> res.status # "HTTPError304", new_meta |-> fallback]
SeedStateErrorUnchanged(prev_meta, res) ==
  LET fallback == IF prev_meta # None THEN prev_meta[1] ELSE EmptyMeta
      new_meta == Meta(res.etag, res.last_modified, res.body.sha)
  IN IF res.status = "ok"
     THEN [changed |-> TRUE, new_meta |-> new_meta]
     ELSE [changed |-> FALSE, new_meta |-> fallback]
fetch_seed_state(prev_meta, res) ==
  LET fallback == IF prev_meta # None THEN prev_meta[1] ELSE EmptyMeta
      new_meta == Meta(res.etag, res.last_modified, res.body.sha)
      old == fallback
  IN IF res.status = "ok"
     THEN IF prev_meta = None THEN [changed |-> TRUE, new_meta |-> new_meta]
          ELSE IF old.content_sha1 # "" /\ old.content_sha1 = new_meta.content_sha1
          THEN [changed |-> FALSE, new_meta |-> new_meta]
          ELSE IF old.etag # "" /\ res.etag # "" /\ old.etag = res.etag
          THEN [changed |-> FALSE, new_meta |-> new_meta]
          ELSE IF old.last_modified # "" /\ res.last_modified # ""
                  /\ old.last_modified = res.last_modified
          THEN [changed |-> FALSE, new_meta |-> new_meta]
          ELSE [changed |-> TRUE, new_meta |-> new_meta]
     ELSE IF res.status = "HTTPError304"
     THEN [changed |-> FALSE, new_meta |-> fallback]
     ELSE [changed |-> TRUE, new_meta |-> fallback]

\* save_bytes: mkdir -p and write_bytes; both raise on a path that cannot be
\* written.
Raises(path) == path \in env.unwritable
\* Faulty variant save_bytes_lost: nothing reaches the disk.
save_bytes_lost(path) == disk' = disk
save_bytes(path) == disk' = disk \cup {path}

\* The task's future gets its result (or its exception) and the thread is
\* free for the next task.
\* (Faulty variant ReturnedQuietly: the exception does not reach the future.)
ReturnedQuietly(l, cnt, raised) ==
  [pool EXCEPT !.futures[l.fut] =
     [@ EXCEPT !.state = "done", !.cnt = cnt, !.exc = raised]]
Returned(l, cnt, raised) ==
  [pool EXCEPT !.futures[l.fut] =
     [@ EXCEPT !.state = IF raised THEN "raised" ELSE "done", !.cnt = cnt,
               !.exc = raised]]

\* ------------------------------------------------------------------------
\* process_seed and crawl_and_collect: the steps of a pool thread
\* ------------------------------------------------------------------------
\* The pool hands the next queued task to a free thread; process_seed line
\* 1154, and line 1157 when completed seeds are not skipped.
TaskPick(w) ==
  /\ local[w].pc = "idle"
  /\ pool.main = "running"
  /\ pool.queue # << >>
  /\ \E i \in 1..cfg.workers : WorkerIds[i] = w
  /\ LET f == Head(pool.queue)
         t == pool.futures[f].task
         l == [local[w] EXCEPT !.fut = f, !.task = t, !.seed = normalize_url(t.seed),
                               !.cur = normalize_url(t.seed), !.site = "seed"]
     IN /\ pool' = [pool EXCEPT !.queue = Tail(@), !.futures[f].state = "running"]
        /\ local' = [local EXCEPT ![w] =
             IF cfg.skip_completed_seeds THEN [l EXCEPT !.pc = "seed_check"]
             ELSE CrawlStart(l)]
  /\ UNCHANGED <<cfg, env, manifest, disk, cache, robots, next_allowed, report,
                 counters, clock, requests>>

\* lines 1162-1182 and 1217-1228: what process_seed does with the answer
\* of the index: crawl, skip, or recheck (robots first).
\* (Faulty variant AfterSeedCheckRecheck: recheck_seeds is taken as on.)
AfterSeedCheckRecheck(l, done) ==
  IF ~done THEN CrawlStart(l)
  ELSE IF cfg.respect_robots
  THEN CallRobots(l, "can_fetch", l.seed, "can_fetch_ret")
  ELSE StartDelay(l)
AfterSeedCheck(l, done) ==
  IF ~done THEN CrawlStart(l)
  ELSE IF ~cfg.recheck_seeds
  THEN Log(l, SeedRec(l, "skip_seed_already_done"), "count")
  ELSE IF cfg.respect_robots
  THEN CallRobots(l, "can_fetch", l.seed, "can_fetch_ret")
  ELSE StartDelay(l)

\* lines 1158-1166 and 1217-1225: read the resume index under the lock and
\* branch on done / recheck_seeds.
SeedCheck(w) ==
  /\ local[w].pc = "seed_check"
  /\ LET l == local[w]
         done == l.seed \in cache.completed_seeds
         l1 == [l EXCEPT !.prev_meta = MetaGet(cache.seed_meta, l.seed)]
     IN local' = [local EXCEPT ![w] = AfterSeedCheck(l1, done)]
  /\ UNCHANGED <<cfg, env, manifest, disk, cache, robots, next_allowed, report,
                 counters, pool, clock, requests>>

\* effective_delay lines 547-552 and the call of limiter.wait (lines 681,
\* 855, 1181).
EffectiveDelay(w) ==
  /\ local[w].pc = "delay_ret"
  /\ LET l == local[w]
         d == IF l.rd = None THEN cfg.delay_sec ELSE Max(cfg.delay_sec, l.rd[1])
     IN local' = [local EXCEPT ![w] = CallWait(l, l.cur, d, "fetch")]
  /\ UNCHANGED <<cfg, env, manifest, disk, cache, robots, next_allowed, report,
                 counters, pool, clock, requests>>

\* fetch_seed_state (line 1182), a page fetch (lines 683-725, 759-763) or a
\* file fetch (lines 857-860, 894-903), with what the thread does with the
\* answer up to its next shared access.
FetchSeed(w, l) ==
  LET hdr == IF l.prev_meta = None THEN EmptyMeta ELSE l.prev_meta[1]
      res == ConditionalResponse(l.seed, hdr.etag, hdr.last_modified)
      st == fetch_seed_state(l.prev_meta, res)
      l1 == [Requested(l) EXCEPT !.changed = st.changed, !.new_meta = st.new_meta]
  IN Log(l1, SeedStateRec(l1), "state_cache")

\* The same request when it gets no answer (a timeout, a reset connection):
\* fetch_seed_state takes the branch of line 617.
FetchSeedNoAnswer(w, l) ==
  LET st == fetch_seed_state(l.prev_meta, Err("URLError"))
      l1 == [Requested(l) EXCEPT !.changed = st.changed, !.new_meta = st.new_meta]
  IN Log(l1, SeedStateRec(l1), "state_cache")

\* (Faulty variant FetchPageRetry: a page whose fetch failed goes back to the
\* end of the queue.)
FetchPageRetry(w, l) ==
  LET res == Response(l.url)
      l0 == Requested(l)
      final == normalize_url(res.final_url)
      l1 == [l0 EXCEPT !.res = res, !.pages_fetched = @ + 1,
                       !.final_page_url = final]
      l2 == [l1 EXCEPT !.file_final = final,
                       !.found_set = @ \cup {final},
                       !.found_minutes = IF final \in l1.found_set THEN @
                                         ELSE Append(@, final)]
  IN IF res.status # "ok"
     THEN Log([l0 EXCEPT !.queued = Append(@, [url |-> l.url, depth |-> l.depth]),
                         !.visited_pages = @ \ {l.url}],
              UrlRec(l0, "fetch_error", l.url), "loop")
     ELSE IF is_probably_binary(res.content_type)
     THEN IF cfg.download_files THEN [l2 EXCEPT !.pc = "check", !.what = "bin"]
          ELSE LoopHead(l2)
     ELSE IF cfg.save_pages THEN [l1 EXCEPT !.pc = "check", !.what = "page"]
     ELSE Parse(l1)

FetchPage(w, l) ==
  LET res == Response(l.url)
      l0 == Requested(l)
      final == normalize_url(res.final_url)
      l1 == [l0 EXCEPT !.res = res, !.pages_fetched = @ + 1,
                       !.final_page_url = final]
      l2 == [l1 EXCEPT !.file_final = final,
                       !.found_set = @ \cup {final},
                       !.found_minutes = IF final \in l1.found_set THEN @
                                         ELSE Append(@, final)]
  IN IF res.status # "ok" THEN Log(l0, UrlRec(l0, "fetch_error", l.url), "loop")
     ELSE IF is_probably_binary(res.content_type)
     THEN IF cfg.download_files THEN [l2 EXCEPT !.pc = "check", !.what = "bin"]
          ELSE LoopHead(l2)
     ELSE IF cfg.save_pages THEN [l1 EXCEPT !.pc = "check", !.what = "page"]
     ELSE Parse(l1)

FetchFile(w, l) ==
  LET res == Response(l.abs_url)
      l0 == Requested(l)
  IN IF res.status # "ok"
     THEN Log(l0, FileRec(l0, "download_error", l.abs_url), "links")
     ELSE [l0 EXCEPT !.pc = "check", !.what = "link_post", !.res = res,
                     !.file_final = normalize_url(res.final_url)]

Fetch(w) ==
  /\ local[w].pc = "fetch"
  /\ LET l == local[w]
     IN /\ requests' = requests \cup
             {Request(w, IF l.site = "link" THEN "file" ELSE l.site, l.cur)}
        /\ \E answered \in (IF l.site = "seed" /\ l.seed \in env.flaky
                            THEN BOOLEAN ELSE {TRUE}) :
             local' = [local EXCEPT ![w] =
               CASE l.site = "seed" -> IF answered THEN FetchSeed(w, l)
                                       ELSE FetchSeedNoAnswer(w, l)
                 [] l.site = "page" -> FetchPage(w, l)
                 [] l.site = "link" -> FetchFile(w, l)]
  /\ UNCHANGED <<cfg, env, manifest, disk, cache, robots, next_allowed, report,
                 counters, pool, clock>>

\* lines 728-737, 764-773, 842-852, 862-872: look the URL up in the resume
\* index under cache_lock.
CacheCheck(w) ==
  /\ local[w].pc = "check"
  /\ LET l == local[w]
     IN local' = [local EXCEPT ![w] =
          CASE l.what = "bin" ->
                 IF AlreadyDownloaded(l.file_final)
                 THEN Log(l, FileRec(l, "skip_download_already_done", l.file_final), "loop")
                 ELSE ToSave(l)
            [] l.what = "page" ->
                 IF AlreadySaved(l.final_page_url)
                 THEN Log(l, PageRec(l, "skip_save_page_already_done", l.final_page_url),
                          "parse")
                 ELSE ToSave(l)
            [] l.what = "link_pre" ->
                 IF AlreadyDownloaded(l.abs_url)
                 THEN Log(l, FileRec(l, "skip_download_already_done", l.abs_url), "links")
                 ELSE StartDelay(l)
            [] l.what = "link_post" ->
                 IF AlreadyDownloaded(l.file_final)
                 THEN Log(l, FileRec(l, "skip_download_already_done", l.file_final), "links")
                 ELSE ToSave(l)]
  /\ UNCHANGED <<cfg, env, manifest, disk, cache, robots, next_allowed, report,
                 counters, pool, clock, requests>>

\* lines 742, 777, 880: save_bytes. A failed write of a direct hit or of a
\* page leaves crawl_and_collect and process_seed as an exception; a failed
\* write of a linked file is caught at line 894.
SaveBytes(w) ==
  /\ local[w].pc = "save"
  /\ LET l == local[w]
         path == SaveTarget(l)
     IN IF Raises(path)
        THEN /\ disk' = disk
             /\ IF l.what = "link_post"
                THEN /\ local' = [local EXCEPT ![w] =
                          Log(l, FileRec(l, "download_error", l.abs_url), "links")]
                     /\ pool' = pool
                ELSE /\ local' = [local EXCEPT ![w] = Reset(l)]
                     /\ pool' = Returned(l, 0, TRUE)
        ELSE /\ save_bytes(path)
             /\ local' = [local EXCEPT ![w].pc = "add"]
             /\ pool' = pool
  /\ UNCHANGED <<cfg, env, manifest, cache, robots, next_allowed, report, counters,
                 clock, requests>>

\* lines 743-744, 778-779, 881-882, 1193-1194, 1253-1256: update the
\* resume index under cache_lock.
CacheAdd(w) ==
  /\ local[w].pc = "add"
  /\ LET l == local[w]
     IN CASE l.what \in {"bin", "link_post"} ->
               /\ cache' = [cache EXCEPT !.downloaded_file_urls = @ \cup {l.file_final}]
               /\ local' = [local EXCEPT ![w] =
                    Log(l, SavedRec(l, "downloaded_file", l.file_final, SaveTarget(l)),
                        IF l.what = "bin" THEN "loop" ELSE "links")]
               /\ pool' = pool
          [] l.what = "page" ->
               /\ cache' = [cache EXCEPT !.saved_page_urls = @ \cup {l.final_page_url}]
               /\ local' = [local EXCEPT ![w] =
                    Log(l, SavedRec(l, "saved_page", l.final_page_url, SaveTarget(l)),
                        "parse")]
               /\ pool' = pool
          [] l.what = "seed_meta" ->
               /\ cache' = [cache EXCEPT !.seed_meta = MetaPut(@, l.seed, l.new_meta)]
               /\ local' = [local EXCEPT ![w] =
                    IF ~l.changed
                    THEN Log(l, SeedRec(l, "skip_seed_already_done_not_modified"), "count")
                    ELSE Log(l, SeedRec(l, "seed_changed_re_crawl"), "crawl")]
               /\ pool' = pool
          [] l.what = "completed" ->
               /\ cache' = [cache EXCEPT !.completed_seeds = @ \cup {l.seed}]
               /\ local' = [local EXCEPT ![w] = Reset(l)]
               /\ pool' = Returned(l, Len(l.found_minutes), FALSE)
  /\ UNCHANGED <<cfg, env, manifest, disk, robots, next_allowed, report, counters,
                 clock, requests>>

\* RobotsDisallowReport.add lines 214-218, the region under the report's
\* lock: an entry whose key was seen is dropped.
\* (Faulty variant AddUnseen: the key is not looked up.)
AddUnseen(rep, key, entry) ==
  [seen |-> rep.seen \cup {key}, entries |-> Append(rep.entries, entry)]
RobotsDisallowReport_add(rep, key, entry) ==
  IF key \in rep.seen THEN rep
  ELSE [seen |-> rep.seen \cup {key}, entries |-> Append(rep.entries, entry)]

\* RobotsDisallowReport.add (lines 670, 832): one entry per
\* (prefecture, city, url), under the report's lock.
ReportAdd(w) ==
  /\ local[w].pc = "report_add"
  /\ LET l == local[w]
         key == <<l.task.prefecture, l.task.city, l.cur>>
     IN /\ report' = RobotsDisallowReport_add(report, key,
                          [prefecture |-> l.task.prefecture, city |-> l.task.city,
                           url |-> l.cur, netloc |-> l.cur.host])
        /\ local' = [local EXCEPT ![w] =
             Log(l, UrlRec(l, "robots_disallow", l.cur),
                 IF l.site = "page" THEN "loop" ELSE "links")]
  /\ UNCHANGED <<cfg, env, manifest, disk, cache, robots, next_allowed, counters,
                 pool, clock, requests>>

\* state.manifest.write(...) of the record the thread has built.
ManifestWrite(w) ==
  /\ local[w].pc = "log"
  /\ Write(local[w].rec)
  /\ local' = [local EXCEPT ![w] = Continue([local[w] EXCEPT !.rec = NoRec])]
  /\ UNCHANGED <<cfg, env, disk, cache, robots, next_allowed, report, counters,
                 pool, clock, requests>>

\* (Faulty variant CountSkipStale: the counter is written from the value read
\* when the run began.)
CountSkipStale(w) ==
  /\ local[w].pc = "count"
  /\ counters' = [counters EXCEPT !.skipped_seed_count = 1]
  /\ pool' = Returned(local[w], 0, FALSE)
  /\ local' = [local EXCEPT ![w] = Reset(local[w])]
  /\ UNCHANGED <<cfg, env, manifest, disk, cache, robots, next_allowed, report,
                 clock, requests>>

\* lines 1176-1178, 1205-1207, 1226-1228: count the skipped seed under
\* counters_lock and return (0, True).
CountSkip(w) ==
  /\ local[w].pc = "count"
  /\ counters' = [counters EXCEPT !.skipped_seed_count = @ + 1]
  /\ pool' = Returned(local[w], 0, FALSE)
  /\ local' = [local EXCEPT ![w] = Reset(local[w])]
  /\ UNCHANGED <<cfg, env, manifest, disk, cache, robots, next_allowed, report,
                 clock, requests>>

\* ------------------------------------------------------------------------
\* main: the thread that starts the run, collects the futures and ends it
\* ------------------------------------------------------------------------
StartRec ==
  [event |-> "start", resume |-> cfg.resume,
   skip_completed_seeds |-> cfg.skip_completed_seeds,
   recheck_seeds |-> cfg.recheck_seeds, force_download |-> cfg.force_download,
   respect_robots |-> cfg.respect_robots, parallel_workers |-> cfg.workers]

\* (Faulty variant StartupLoadFirst: the journal is replayed before it is
\* truncated.)
StartupLoadFirst ==
  /\ pool.main = "init"
  /\ LET file == IF cfg.overwrite_manifest THEN << >> ELSE manifest
         built == BuildTasks(env.records, cfg.threshold)
         tasks == round_robin_by_netloc(built.tasks)
     IN IF ~env.input_exists
        THEN /\ manifest' = file
             /\ pool' = [pool EXCEPT !.main = "exit2"]
             /\ cache' = cache
        ELSE /\ cache' = IF cfg.resume THEN load_manifest_cache(manifest)
                         ELSE EmptyCache
             /\ manifest' = file \o <<StartRec>> \o built.lines
             /\ pool' = [pool EXCEPT
                  !.main = "running",
                  !.queue = [i \in 1..Len(tasks) |-> i],
                  !.futures = [i \in 1..Len(tasks) |->
                                 [task |-> tasks[i], state |-> "pending", cnt |-> 0,
                                  exc |-> FALSE]]]
  /\ UNCHANGED <<cfg, env, disk, robots, next_allowed, report, counters, clock,
                 requests, local>>

\* lines 1030-1145 and 1260: truncate on --overwrite-manifest, stop with 2
\* when the input is missing, replay the journal when resuming, journal
\* start and the cities, build and order the tasks, submit them.
Startup ==
  /\ pool.main = "init"
  /\ LET file == IF cfg.overwrite_manifest THEN << >> ELSE manifest
         built == BuildTasks(env.records, cfg.threshold)
         tasks == round_robin_by_netloc(built.tasks)
     IN IF ~env.input_exists
        THEN /\ manifest' = file
             /\ pool' = [pool EXCEPT !.main = "exit2"]
             /\ cache' = cache
        ELSE /\ cache' = IF cfg.resume THEN load_manifest_cache(file) ELSE EmptyCache
             /\ manifest' = file \o <<StartRec>> \o built.lines
             /\ pool' = [pool EXCEPT
                  !.main = "running",
                  !.queue = [i \in 1..Len(tasks) |-> i],
                  !.futures = [i \in 1..Len(tasks) |->
                                 [task |-> tasks[i], state |-> "pending", cnt |-> 0,
                                  exc |-> FALSE]]]
  /\ UNCHANGED <<cfg, env, disk, robots, next_allowed, report, counters, clock,
                 requests, local>>

\* lines 1261-1271: as_completed hands over a finished future; its count is
\* added under counters_lock, its exception is journaled.
Collect ==
  /\ pool.main = "running"
  /\ \E f \in 1..Len(pool.futures) :
       /\ pool.futures[f].state \in {"done", "raised"}
       /\ pool' = [pool EXCEPT !.futures[f].state = "collected"]
       /\ IF pool.futures[f].state = "done"
          THEN /\ counters' = [counters EXCEPT
                    !.total_found_links = @ + pool.futures[f].cnt]
               /\ manifest' = manifest
          ELSE /\ Write([event |-> "seed_task_exception"])
               /\ counters' = counters
  /\ UNCHANGED <<cfg, env, disk, cache, robots, next_allowed, report, clock,
                 requests, local>>

\* write_robots_reports: the five files of the report directory.
ReportFile(n) ==
  [pref |-> "", city |-> "", dir |-> "reports", name |-> U("", <<n>>, ""), ext |-> ""]
ReportFiles ==
  {ReportFile(n) : n \in {"robots_disallow_urls.jsonl", "robots_disallow_summary.json",
                          "robots_disallow_by_city.csv", "robots_disallow_by_domain.csv",
                          "robots_disallow_by_path_prefix.csv"}}

\* lines 1273-1299: every future was collected; the reports and the last
\* two journal lines.
Finish ==
  /\ pool.main = "running"
  /\ \A f \in 1..Len(pool.futures) : pool.futures[f].state = "collected"
  /\ manifest' = manifest \o
       <<[event |-> "robots_report_written",
          robots_disallow_total |-> Len(report.entries)],
         [event |-> "done", total_found_links |-> counters.total_found_links,
          skipped_seed_count |-> counters.skipped_seed_count,
          robots_disallow_total |-> Len(report.entries)]>>
  /\ disk' = disk \cup ReportFiles
  /\ pool' = [pool EXCEPT !.main = "exit0"]
  /\ UNCHANGED <<cfg, env, cache, robots, next_allowed, report, counters, clock,
                 requests, local>>

\* ------------------------------------------------------------------------
\* Initial states
\* ------------------------------------------------------------------------
Hosts == {"h", "g"}

Pool0 == [main |-> "init", run |-> 1, queue |-> << >>, futures |-> << >>]
Robots0 == [cache |-> [h \in Hosts |-> None], fail |-> {}]
Limiter0 == [h \in Hosts |-> None]
Report0 == [seen |-> {}, entries |-> << >>]
Counters0 == [total_found_links |-> 0, skipped_seed_count |-> 0]

\* A new process on the given flags and environment, over an empty journal
\* and an empty output directory.
Fresh(c, e) ==
  /\ cfg = c
  /\ env = e
  /\ manifest = << >>
  /\ disk = {}
  /\ cache = EmptyCache
  /\ robots = Robots0
  /\ next_allowed = Limiter0
  /\ report = Report0
  /\ counters = Counters0
  /\ pool = Pool0
  /\ clock = 0
  /\ requests = {}
  /\ local = [w \in Workers |-> Local0]

\* The same command line run again: a new process (new registry, limiter,
\* report, counters, pool) over the journal and the files the earlier runs
\* left.
Restart ==
  /\ pool.main \in {"exit0", "exit2"}
  /\ pool.run < MaxRuns
  /\ pool' = [Pool0 EXCEPT !.run = pool.run + 1]
  /\ cache' = EmptyCache
  /\ robots' = Robots0
  /\ next_allowed' = Limiter0
  /\ report' = Report0
  /\ counters' = Counters0
  /\ local' = [w \in Workers |-> Local0]
  /\ UNCHANGED <<cfg, env, manifest, disk, clock, requests>>

\* ------------------------------------------------------------------------
\* The sites, the input records and the flags of the checked runs
\* ------------------------------------------------------------------------
SeedA == U("h", <<"x", "">>, "")
SeedAFrag == U("h", <<"x", "">>, "top")
SeedP == U("h", <<"p", "n.pdf">>, "")
FileM == U("h", <<"x", "m.pdf">>, "")
FileR == U("h", <<"x", "r.pdf">>, "")
PageB == U("h", <<"x", "b">>, "")
Away == U("g", <<"x", "m.pdf">>, "")
Mail == U("", <<"mailto:a">>, "")

Pdf(u, sha) == Ok(u, "application/pdf", Body(sha, << >>, FALSE), "", "")
Html(u, sha, links, etag) == Ok(u, "text/html", Body(sha, links, FALSE), etag, "")

\* A listing page with a minutes file, a second link that redirects to the
\* same file, and a sub-page linking the file again.
SiteListing(etag) ==
  [u \in {SeedA, SeedP, FileM, FileR, PageB} |->
     CASE u = SeedA -> Html(SeedA, "a",
                            <<Link(Mail, FALSE), Link(Away, FALSE), Link(FileM, FALSE),
                              Link(FileR, FALSE), Link(PageB, FALSE)>>, etag)
       [] u = SeedP -> Pdf(SeedP, "n")
       [] u = FileM -> Pdf(FileM, "m")
       [] u = FileR -> Pdf(FileM, "m")
       [] u = PageB -> Html(PageB, "b", <<Link(FileM, TRUE)>>, "")]

\* A listing page with one minutes file.
SiteSmall ==
  [u \in {SeedA, SeedP, FileM} |->
     CASE u = SeedA -> Html(SeedA, "a", <<Link(FileM, FALSE)>>, "")
       [] u = SeedP -> Pdf(SeedP, "n")
       [] u = FileM -> Pdf(FileM, "m")]

Count(u, n) == [url |-> u, count |-> n]
City(parent) ==
  [prefecture |-> "p", city |-> "c", parent |-> parent, grand_parent |-> << >>]

FilePath(u) == SavePath("p", "c", "files", u, ".pdf")
PagePath(u) == SavePath("p", "c", "pages", u, ".html")

AllowAll == Policy({}, None)
Deny(paths) == Policy(paths, None)

Env(records, rb, site, conditional, unwritable) ==
  [records |-> records, input_exists |-> TRUE,
   robots |-> [h \in Hosts |-> rb], site |-> site, conditional |-> conditional,
   unwritable |-> unwritable, flaky |-> {}]

Flags(workers, respect_robots, resume, skip, recheck, force_download) ==
  [respect_robots |-> respect_robots, delay_sec |-> 0, max_depth |-> 1,
   max_pages |-> 3, same_domain_only |-> TRUE, same_path_prefix_only |-> FALSE,
   file_exts |-> {".pdf"}, save_pages |-> TRUE, download_files |-> TRUE,
   resume |-> resume, skip_completed_seeds |-> skip, recheck_seeds |-> recheck,
   force_download |-> force_download, overwrite_manifest |-> FALSE,
   threshold |-> 1, workers |-> workers]

\* ------------------------------------------------------------------------
\* Specifications
\* ------------------------------------------------------------------------
WorkerStep(w) ==
  \/ TaskPick(w)
  \/ SeedCheck(w)
  \/ GetParserLookup(w)
  \/ GetParserFetch(w)
  \/ GetParserStore(w)
  \/ GetParserLog(w)
  \/ EffectiveDelay(w)
  \/ Fetch(w)
  \/ CacheCheck(w)
  \/ SaveBytes(w)
  \/ CacheAdd(w)
  \/ ReportAdd(w)
  \/ ManifestWrite(w)
  \/ CountSkip(w)

NextCrawl ==
  \/ Startup
  \/ Collect
  \/ Finish
  \/ \E w \in Workers : WorkerStep(w)

\* One run of two pool threads over an empty journal: two tasks of one
\* city on one host (the same listing twice, or a listing and a file).
InitCrawl ==
  \E seeds \in {<<Count(SeedA, 1), Count(SeedAFrag, 1)>>,
                <<Count(SeedA, 1), Count(SeedP, 1)>>} :
    \E rb \in {{AllowAll}, {Deny({FileM.path})}, {Deny({SeedA.path})}, {RobotsFailed}} :
      \E unwritable \in {{}, {FilePath(FileM)}, {PagePath(SeedA)}} :
        Fresh(Flags(2, TRUE, TRUE, TRUE, TRUE, FALSE),
              Env(<<City(seeds)>>, rb, SiteSmall, TRUE, unwritable))

Spec == InitCrawl /\ [][NextCrawl]_vars

\* The same command line run MaxRuns times by one pool thread, each run on
\* the journal and the files of the runs before it, against servers that
\* answer every run alike.
InitRerun ==
  \E respect_robots, resume, skip, recheck, force_download, conditional \in BOOLEAN :
    \E rb \in {{AllowAll}, {Deny({FileR.path})}, {Deny({SeedA.path})},
                {Deny({SeedP.path, FileR.path})}} :
      \E unwritable \in {{}, {FilePath(FileM)}} :
        \E etag \in {"", "v1"} :
          Fresh(Flags(1, respect_robots, resume, skip, recheck, force_download),
                Env(<<City(<<Count(SeedA, 1), Count(SeedP, 1)>>)>>, rb,
                    SiteListing(etag), conditional, unwritable))

NextRerun == NextCrawl \/ Restart

SpecRerun == InitRerun /\ [][NextRerun]_vars

\* ------------------------------------------------------------------------
\* DomainRateLimiter alone: pool threads calling wait() for one host
\* ------------------------------------------------------------------------
LimDelays == {1, 2}

\* A thread calls limiter.wait(url, delay): lines 455-458.
LimCall(w) ==
  /\ local[w].pc = "idle"
  /\ local[w].ncall < MaxCalls
  /\ \E d \in LimDelays :
       local' = [local EXCEPT ![w] =
         CallWait([local[w] EXCEPT !.ncall = @ + 1], FileM, d, "lim_ret")]
  /\ UNCHANGED <<cfg, env, manifest, disk, cache, robots, next_allowed, report,
                 counters, pool, clock, requests>>

\* wait() has returned: the request starts at the instant of the return.
LimReturn(w) ==
  /\ local[w].pc = "lim_ret"
  /\ LET l == local[w]
     IN /\ requests' = requests \cup
             {[kind |-> "start", url |-> l.w_url, by |-> w, n |-> l.ncall,
               at |-> l.ret_at, delay |-> l.w_delay]}
        /\ local' = [local EXCEPT ![w] = Reset(l)]
  /\ UNCHANGED <<cfg, env, manifest, disk, cache, robots, next_allowed, report,
                 counters, pool, clock>>

NextLimiter ==
  \/ Tick
  \/ \E w \in Workers : LimCall(w) \/ WaitLock(w) \/ WaitSleep(w) \/ LimReturn(w)

InitLimiter ==
  Fresh(Flags(2, FALSE, FALSE, FALSE, FALSE, FALSE),
        Env(<< >>, {AllowAll}, SiteSmall, FALSE, {}))

SpecLimiter == InitLimiter /\ [][NextLimiter]_vars

\* ------------------------------------------------------------------------
\* RobotsManager alone: pool threads calling can_fetch / crawl_delay for one
\* host whose robots.txt sometimes fails to load
\* ------------------------------------------------------------------------
RobCall(w) ==
  /\ local[w].pc = "idle"
  /\ local[w].ncall < MaxCalls
  /\ \E op \in {"can_fetch", "crawl_delay"} :
       \E u \in {SeedA, FileM} :
         local' = [local EXCEPT ![w] =
           CallRobots([local[w] EXCEPT !.ncall = @ + 1, !.cur = u], op, u, "rob_ret")]
  /\ UNCHANGED <<cfg, env, manifest, disk, cache, robots, next_allowed, report,
                 counters, pool, clock, requests>>

\* The call has returned: its answer, and whether it began after a load
\* failure of the host had been journaled.
RobReturn(w) ==
  /\ local[w].pc = "rob_ret"
  /\ LET l == local[w]
     IN /\ requests' = requests \cup
             {[kind |-> "answer", op |-> l.gp_op, url |-> l.gp_url, by |-> w,
               n |-> l.ncall, allowed |-> l.allowed, rd |-> l.rd,
               after_fail |-> l.gp_after_fail]}
        /\ local' = [local EXCEPT ![w] = Reset(l)]
  /\ UNCHANGED <<cfg, env, manifest, disk, cache, robots, next_allowed, report,
                 counters, pool, clock>>

NextRobots ==
  \E w \in Workers :
    \/ RobCall(w)
    \/ GetParserLookup(w)
    \/ GetParserFetch(w)
    \/ GetParserStore(w)
    \/ GetParserLog(w)
    \/ RobReturn(w)

InitRobots ==
  Fresh(Flags(2, TRUE, FALSE, FALSE, FALSE, FALSE),
        Env(<< >>, {RobotsFailed, Policy({FileM.path}, Some(Decimal(2, 0)))},
            SiteSmall, FALSE, {}))

SpecRobots == InitRobots /\ [][NextRobots]_vars

\* ------------------------------------------------------------------------
\* Properties
\* ------------------------------------------------------------------------
Starts == {r \in requests : r.kind = "start"}
Gets(kind, h) == {r \in requests : r.kind = kind /\ r.url.host = h}
Events(ev) == {i \in 1..Len(manifest) : manifest[i].event = ev}

\* C1: any two returns of wait() for the same host are separated by at
\* least the delay passed by the earlier call, under every interleaving.
C1_StartsSeparated ==
  \A r1 \in Starts : \A r2 \in Starts :
    (r1 # r2 /\ r1.url.host = r2.url.host /\ r1.at <= r2.at)
      => r2.at - r1.at >= r1.delay

\* C3: for each host at most one robots.txt GET is issued and at most one
\* robots_loaded / robots_load_failed_allow_all line is journaled.
C3_OneLoadPerHost ==
  \A h \in Hosts :
    /\ Cardinality(Gets("robots", h)) <= 1
    /\ Cardinality({i \in Events("robots_loaded") \cup
                             Events("robots_load_failed_allow_all") :
                      manifest[i].netloc = h}) <= 1

\* C5: a call that begins after robots_load_failed_allow_all was journaled
\* for its host gets can_fetch = true and crawl_delay = absent.
C5_FailureSticky ==
  \A r \in requests :
    (r.kind = "answer" /\ r.after_fail) =>
      /\ r.op = "can_fetch" => r.allowed
      /\ r.op = "crawl_delay" => r.rd = None

\* The run each journal line belongs to (a run begins with its start line).
RunOf(i) == Cardinality({j \in 1..i : manifest[j].event = "start"})
RunLines(n) == {i \in 1..Len(manifest) : RunOf(i) = n}
RunEnded(n) == pool.run > n \/ (pool.run = n /\ pool.main = "exit0")
DownloadedIn(n) ==
  {manifest[i].file_url : i \in {j \in RunLines(n) : manifest[j].event = "downloaded_file"}}
SkipEvents ==
  {"skip_seed_already_done", "skip_seed_already_done_not_modified",
   "skip_seed_already_done_robots_disallow"}

\* The host's robots.txt, as the servers of this run answer it, lets s be
\* fetched.
SeedAllowed(s) ==
  \/ ~cfg.respect_robots
  \/ \A out \in env.robots[s.host] : out = RobotsFailed \/ RpCanFetch(out, s)

\* C2: every request that reached a host (page, file, seed revalidation,
\* robots.txt) was preceded by a limiter.wait of its thread for that host.
C2_EveryRequestWaited ==
  \A r \in requests : r.kind \in {"page", "file", "seed", "robots"} => r.waited

\* What a thread does while it holds a false answer of can_fetch: for a
\* page or file the report entry and the robots_disallow line, for a
\* completed seed the skip line and the count.
C4_Handled(l) ==
  LET u == l.chk[1].url
      reported == <<l.task.prefecture, l.task.city, u>> \in report.seen
      disallow == UrlRec(l, "robots_disallow", u)
      skip == SeedRec(l, "skip_seed_already_done_robots_disallow")
      now == RunLines(pool.run)
  IN IF l.site = "seed"
     THEN \/ l.pc = "log" /\ l.rec = skip
          \/ l.pc = "count" /\ \E i \in now : manifest[i] = skip
     ELSE \/ l.pc = "report_add" /\ l.cur = u
          \/ reported /\ l.pc = "log" /\ l.rec = disallow
          \/ reported /\ \E i \in now : manifest[i] = disallow

\* C4: no page, file or seed revalidation request is made for a URL whose
\* preceding can_fetch answered false; a thread holding such an answer for a
\* page or file adds the report entry and journals robots_disallow, for a
\* completed seed it journals skip_seed_already_done_robots_disallow and
\* counts the seed as skipped.
C4_DeniedNeverFetched ==
  /\ \A r \in requests : r.kind \in {"page", "file", "seed"} => ~r.denied
  /\ \A w \in Workers :
       (local[w].chk # None /\ ~local[w].chk[1].ok) => C4_Handled(local[w])
  /\ Cardinality({i \in RunLines(pool.run) : manifest[i].event \in SkipEvents})
       = counters.skipped_seed_count
         + Cardinality({w \in Workers : local[w].pc = "count"})

C4_Witness ==
  /\ pool.run = 2 /\ pool.main = "exit0"
  /\ Events("robots_disallow") # {}
  /\ Events("skip_seed_already_done_robots_disallow") # {}
  /\ report.entries # << >>
  /\ counters.skipped_seed_count > 0

\* C6: every URL the run has put into downloaded_file_urls has its file on
\* disk, and a URL whose file could not be written is not in the set.
C6_InsertedIsOnDisk ==
  /\ \A u \in cache.downloaded_file_urls :
       \E p \in disk : p.dir = "files" /\ p.name = u
  /\ \A p \in env.unwritable :
       p.dir = "files" => p.name \notin cache.downloaded_file_urls

C6_Witness ==
  /\ SeedP \in cache.downloaded_file_urls
  /\ FilePath(FileM) \in env.unwritable
  /\ \E i \in Events("download_error") : manifest[i].file_url = FileM
  /\ FileM \notin cache.downloaded_file_urls

\* C7: the path of every downloaded_file and saved_page line of the journal
\* is a file that has been written.
C7_JournaledIsWritten ==
  \A i \in 1..Len(manifest) :
    manifest[i].event \in {"downloaded_file", "saved_page"} => manifest[i].path \in disk

C7_Witness ==
  /\ \E i \in Events("downloaded_file") : manifest[i].path \in disk
  /\ \E i \in Events("saved_page") : manifest[i].path \in disk

\* C8: a seed that reached seed_done in the run before, revalidated in this
\* run (resume, skip-completed-seeds, recheck-seeds on) against an unchanged
\* page, ends with skip_seed_already_done_not_modified and without a
\* found_minutes_link line from its page.
C8_UnchangedSeedSkipped ==
  (/\ cfg.resume /\ cfg.skip_completed_seeds /\ cfg.recheck_seeds
   /\ pool.run >= 2 /\ pool.main = "exit0")
  => \A j \in RunLines(pool.run - 1) :
       (manifest[j].event = "seed_done" /\ SeedAllowed(manifest[j].seed_url)) =>
         /\ \E i \in RunLines(pool.run) :
              /\ manifest[i].event = "skip_seed_already_done_not_modified"
              /\ manifest[i].seed_url = manifest[j].seed_url
         /\ \A i \in RunLines(pool.run) :
              manifest[i].event = "found_minutes_link"
                => manifest[i].source_page # manifest[j].seed_url

\* C9: a run that resumes from the journal of the runs before it, with the
\* same seeds, flags and servers and without --force-download, journals no
\* downloaded_file and no saved_page line.
C9_RerunSavesNothing ==
  (cfg.resume /\ ~cfg.force_download) =>
    \A i \in 1..Len(manifest) :
      RunOf(i) >= 2 => manifest[i].event \notin {"downloaded_file", "saved_page"}

C9_Witness ==
  /\ cfg.resume /\ ~cfg.force_download
  /\ pool.run = 2 /\ pool.main = "exit0"
  /\ DownloadedIn(1) # {}
  /\ \E i \in RunLines(2) : manifest[i].event = "skip_download_already_done"
  /\ \E i \in RunLines(2) : manifest[i].event = "skip_save_page_already_done"

\* C10 as stated: with --force-download every finished rerun journals
\* downloaded_file lines for the file URLs of the first run, whatever the
\* seed-skip flags and the seed_state lines.
C10_ForcedRerunSameFiles ==
  cfg.force_download =>
    \A n \in 2..pool.run : RunEnded(n) => DownloadedIn(n) = DownloadedIn(1)

\* C10 amended: with --force-download and completed seeds not skipped, every
\* finished rerun journals downloaded_file lines for the file URLs of the
\* first run.
C10_ForcedRecrawlSameFiles ==
  (cfg.force_download /\ ~cfg.skip_completed_seeds) =>
    \A n \in 2..pool.run : RunEnded(n) => DownloadedIn(n) = DownloadedIn(1)

C10_Witness ==
  /\ cfg.force_download /\ ~cfg.skip_completed_seeds /\ cfg.resume
  /\ pool.run = 2 /\ pool.main = "exit0"
  /\ FileM \in DownloadedIn(1)
  /\ DownloadedIn(2) = DownloadedIn(1)

\* The downloaded_file lines run n journaled for file URL u.
DownloadLines(n, u) ==
  {i \in RunLines(n) : manifest[i].event = "downloaded_file" /\ manifest[i].file_url = u}

\* C11: within one seed's crawl a final file URL is journaled as
\* downloaded_file at most once (the two seeds of these runs reach disjoint
\* files, so a run's lines for a file URL are those of one seed's crawl).
C11_FileDownloadedOnce ==
  \A n \in 1..pool.run : \A u \in {FileM, SeedP} :
    Cardinality(DownloadLines(n, u)) <= 1

\* ------------------------------------------------------------------------
\* load_manifest_cache alone: a journal file of at most MaxLines lines, each
\* a line the program writes, a torn line or a blank one, replayed once
\* ------------------------------------------------------------------------
MaxLines == 3

StateLine(etag, sha) ==
  [event |-> "seed_state", seed_url |-> SeedA, etag |-> etag,
   last_modified |-> "", content_sha1 |-> sha]

JournalLines ==
  {[event |-> "seed_done", prefecture |-> "p", city |-> "c", mode |-> "parent",
    seed_url |-> SeedA, found_count |-> 1],
   [event |-> "seed_done", prefecture |-> "p", city |-> "c", mode |-> "parent",
    seed_url |-> SeedP, found_count |-> 1],
   [event |-> "downloaded_file", prefecture |-> "p", city |-> "c",
    file_url |-> FileM, path |-> FilePath(FileM)],
   [event |-> "saved_page", prefecture |-> "p", city |-> "c",
    page_url |-> SeedA, path |-> PagePath(SeedA)],
   StateLine("v1", "a"), StateLine("v2", "b"),
   [event |-> "skip_download_already_done", prefecture |-> "p", city |-> "c",
    file_url |-> FileR],
   TornLine, BlankLine}

\* main line 1070: the journal is replayed into the resume index.
LoadCache ==
  /\ pool.main = "init"
  /\ cache' = IF cfg.resume THEN load_manifest_cache(manifest) ELSE EmptyCache
  /\ pool' = [pool EXCEPT !.main = "loaded"]
  /\ UNCHANGED <<cfg, env, manifest, disk, robots, next_allowed, report, counters,
                 clock, requests, local>>

NextReplay == LoadCache

InitReplay ==
  /\ cfg = Flags(1, TRUE, TRUE, TRUE, TRUE, FALSE)
  /\ env = Env(<< >>, {AllowAll}, SiteSmall, FALSE, {})
  /\ manifest \in UNION {[1..n -> JournalLines] : n \in 0..MaxLines}
  /\ disk = {}
  /\ cache = EmptyCache
  /\ robots = Robots0
  /\ next_allowed = Limiter0
  /\ report = Report0
  /\ counters = Counters0
  /\ pool = Pool0
  /\ clock = 0
  /\ requests = {}
  /\ local = [w \in Workers |-> Local0]

SpecReplay == InitReplay /\ [][NextReplay]_vars

\* The complete records of the file with the given event.
Records(ev) ==
  {i \in 1..Len(manifest) : json_loads(manifest[i]) # None /\ manifest[i].event = ev}
LastState(s) ==
  LET at == {i \in Records("seed_state") : manifest[i].seed_url = s}
      i == CHOOSE k \in at : \A j \in at : j <= k
  IN Meta(manifest[i].etag, manifest[i].last_modified, manifest[i].content_sha1)

Triple(r) == <<r.prefecture, r.city, r.url>>
EntryTriples == {Triple(report.entries[i]) : i \in 1..Len(report.entries)}
AddedTriples ==
  {Triple(manifest[i]) : i \in Events("robots_disallow")} \cup
  {Triple(local[w].rec) :
     w \in {v \in Workers : local[v].pc = "log" /\ local[v].rec.event = "robots_disallow"}}

\* C13: whatever the interleaving of the pool threads' add calls, the report
\* holds one entry for every (prefecture, city, url) triple added and no
\* second entry for any, and robots_disallow_total of the finished run is
\* the number of distinct triples added.
C13_OneEntryPerTriple ==
  /\ \A i, j \in 1..Len(report.entries) :
       Triple(report.entries[i]) = Triple(report.entries[j]) => i = j
  /\ EntryTriples = AddedTriples
  /\ pool.main = "exit0" =>
       manifest[Len(manifest)].robots_disallow_total = Cardinality(AddedTriples)

C13_Witness ==
  /\ \A w \in Workers :
       /\ local[w].pc = "log"
       /\ local[w].rec = UrlRec(local[w], "robots_disallow", FileM)
  /\ Len(report.entries) = 1

\* C14: a failure at one URL of a seed's crawl (page fetch, file download,
\* writing a downloaded file or a saved page, HTML parse) is absorbed there:
\* no seed task ends with an exception, and in the finished run every task
\* has journaled seed_done or one of the skip lines.
C14_UrlFailureAbsorbed ==
  /\ \A f \in 1..Len(pool.futures) : pool.futures[f].state # "raised"
  /\ pool.main = "exit0" =>
       Cardinality({i \in 1..Len(manifest) :
                      manifest[i].event \in SkipEvents \cup {"seed_done"}})
         = Len(pool.futures)

\* The tasks an exception has left, and the terminal line of a task that
\* returned.
Escaped == {f \in 1..Len(pool.futures) : pool.futures[f].exc}
Ended(f) ==
  \E i \in 1..Len(manifest) :
    /\ manifest[i].event \in SkipEvents \cup {"seed_done"}
    /\ manifest[i].seed_url = normalize_url(pool.futures[f].task.seed)

\* C15: for every task an exception escaped exactly one seed_task_exception
\* line is journaled (when main collects it), its seed is not in
\* completed_seeds and has no seed_done line; the other tasks reach their
\* terminal line, and the run ends with the report files written and the
\* robots_report_written and done lines.
C15_EscapeIsContained ==
  /\ Cardinality(Events("seed_task_exception"))
       = Cardinality({f \in Escaped : pool.futures[f].state = "collected"})
  /\ \A f \in Escaped :
       /\ normalize_url(pool.futures[f].task.seed) \notin cache.completed_seeds
       /\ \A i \in Events("seed_done") :
            manifest[i].seed_url # normalize_url(pool.futures[f].task.seed)
  /\ pool.main = "exit0" =>
       /\ \A f \in 1..Len(pool.futures) :
            /\ pool.futures[f].state = "collected"
            /\ f \notin Escaped => Ended(f)
       /\ ReportFiles \subseteq disk
       /\ manifest[Len(manifest) - 1].event = "robots_report_written"
       /\ manifest[Len(manifest)].event = "done"

C15_Witness ==
  /\ pool.main = "exit0"
  /\ Cardinality(Escaped) = 1
  /\ Cardinality(Events("seed_task_exception")) = 1
  /\ \E i \in Events("seed_done") : manifest[i].seed_url = SeedP

\* ------------------------------------------------------------------------
\* The recheck of a completed seed: a run of one pool thread over the
\* journal of an earlier run that completed the seed, with or without a
\* seed_state line, against a server whose answer for the seed is any of
\* the combinations of validators and body, or an error
\* ------------------------------------------------------------------------
PriorMetas ==
  {None, Some(EmptyMeta)} \cup
  {Some(Meta(et, lm, sha)) : et \in {"", "v1"}, lm \in {"", "t1"}, sha \in {"a", "b"}}

SeedAnswers ==
  {Ok(SeedA, "text/html", Body(sha, <<Link(FileM, FALSE)>>, FALSE), et, lm) :
     et \in {"", "v1", "v2"}, lm \in {"", "t1", "t2"}, sha \in {"a", "b"}}
  \cup {Err("HTTPError"), Err("URLError")}

SiteWith(answer) ==
  [u \in DOMAIN SiteSmall |-> IF u = SeedA THEN answer ELSE SiteSmall[u]]

\* The journal a run leaves that completed SeedA and last saw the given
\* seed_state, if any.
JournalOf(prior) ==
  <<[event |-> "seed_done", prefecture |-> "p", city |-> "c", mode |-> "parent",
     seed_url |-> SeedA, found_count |-> 1]>>
  \o (IF prior = None THEN << >>
      ELSE <<[event |-> "seed_state", seed_url |-> SeedA, etag |-> prior[1].etag,
              last_modified |-> prior[1].last_modified,
              content_sha1 |-> prior[1].content_sha1]>>)

InitRecheck ==
  \E prior \in PriorMetas : \E answer \in SeedAnswers : \E conditional \in BOOLEAN :
    \E rb \in {{AllowAll}, {Deny({FileM.path})}} :
      /\ cfg = Flags(1, TRUE, TRUE, TRUE, TRUE, FALSE)
      /\ env = Env(<<City(<<Count(SeedA, 1)>>)>>, rb, SiteWith(answer), conditional, {})
      /\ manifest = JournalOf(prior)
      /\ disk = {}
      /\ cache = EmptyCache
      /\ robots = Robots0
      /\ next_allowed = Limiter0
      /\ report = Report0
      /\ counters = Counters0
      /\ pool = Pool0
      /\ clock = 0
      /\ requests = {}
      /\ local = [w \in Workers |-> Local0]

SpecRecheck == InitRecheck /\ [][NextCrawl]_vars

\* The answer the seed's revalidation of this run gets, and the thread that
\* holds the outcome of fetch_seed_state.
Revalidation(l) ==
  LET hdr == IF l.prev_meta = None THEN EmptyMeta ELSE l.prev_meta[1]
  IN ConditionalResponse(SeedA, hdr.etag, hdr.last_modified)
Revalidated(l) ==
  \/ l.pc = "log" /\ l.rec.event = "seed_state"
  \/ l.pc = "add" /\ l.what = "seed_meta"

\* C16: for a revalidation answered 200 fetch_seed_state reports the seed
\* unchanged exactly when the prior SHA-1 is the new one, or a prior ETag is
\* present and is the new one, or a prior Last-Modified is present and is
\* the new one; without a prior seed_state none of the three holds.
C16_UnchangedIff ==
  \A w \in Workers :
    LET l == local[w]
        r == Revalidation(l)
        prior == l.prev_meta
    IN (Revalidated(l) /\ r.status = "ok") =>
         (~l.changed <=>
            /\ prior # None
            /\ \/ prior[1].content_sha1 = r.body.sha
               \/ prior[1].etag # "" /\ prior[1].etag = r.etag
               \/ prior[1].last_modified # "" /\ prior[1].last_modified = r.last_modified)

C16_Witness ==
  LET l == local["w1"]
      r == Revalidation(l)
  IN /\ Revalidated(l) /\ r.status = "ok"
     /\ l.prev_meta # None
     /\ l.prev_meta[1].content_sha1 # r.body.sha
     /\ l.prev_meta[1].etag = ""
     /\ l.prev_meta[1].last_modified = "t1" /\ r.last_modified = "t1"
     /\ ~l.changed

\* The lines the run has added to the journal it started from.
Now(ev) == {i \in RunLines(1) : manifest[i].event = ev}

\* C17: a revalidation that fails with an error other than 304 makes the
\* seed changed: seed_changed_re_crawl is journaled, the crawl requests the
\* seed's page, the task ends with seed_done and the seed is not counted as
\* skipped; a 304 makes it unchanged, its seed_state line and seed_meta entry
\* keep the prior values, and the seed is skipped as not modified.
C17_FailedRecheckRecrawls ==
  \A w \in Workers :
    LET l == local[w]
        r == Revalidation(l)
        done == pool.main = "exit0"
        requested == \E q \in requests : q.kind = "seed"
        before == SubSeq(manifest, 1, Cardinality(RunLines(0)))
        prior == MetaGet(load_manifest_cache(before).seed_meta, SeedA)
        answer == ConditionalResponse(SeedA,
                    IF prior = None THEN "" ELSE prior[1].etag,
                    IF prior = None THEN "" ELSE prior[1].last_modified)
    IN /\ (Revalidated(l) /\ r.status \notin {"ok", "HTTPError304"}) => l.changed
       /\ (Revalidated(l) /\ r.status = "HTTPError304") =>
            ~l.changed /\ l.new_meta = l.prev_meta[1]
       /\ (done /\ requested /\ answer.status \notin {"ok", "HTTPError304"}) =>
            /\ Now("seed_changed_re_crawl") # {}
            /\ \E q \in requests : q.kind = "page" /\ q.url = SeedA
            /\ Now("seed_done") # {}
            /\ counters.skipped_seed_count = 0
       /\ (done /\ requested /\ answer.status = "HTTPError304") =>
            /\ Now("skip_seed_already_done_not_modified") # {}
            /\ Now("seed_done") = {}
            /\ counters.skipped_seed_count = 1
            /\ MetaGet(cache.seed_meta, SeedA) = prior
            /\ \A i \in Now("seed_state") :
                 Meta(manifest[i].etag, manifest[i].last_modified,
                      manifest[i].content_sha1) = prior[1]

C17_Witness ==
  /\ pool.main = "exit0"
  /\ Response(SeedA).status = "URLError"
  /\ Now("seed_changed_re_crawl") # {}
  /\ Now("fetch_error") # {}
  /\ Now("seed_done") # {}
  /\ counters.skipped_seed_count = 0

\* The seeds with a seed_done line in the journal the current run started
\* from, and the current run's lines about seed s.
DoneBefore ==
  {manifest[i].seed_url :
     i \in {j \in Events("seed_done") : RunOf(j) < pool.run}}
SeedLines(s, evs) ==
  {i \in RunLines(pool.run) : manifest[i].event \in evs /\ manifest[i].seed_url = s}

\* C18: with resume and skip-completed-seeds on and recheck-seeds off, a
\* seed completed in the journal gets no seed_done and no seed_state line
\* in the run and, once the run has ended, exactly one
\* skip_seed_already_done line and one count in skipped_seed_count; a run
\* all of whose seeds are completed makes no request at all (no robots.txt
\* load, no page fetch).
C18_CompletedSeedSkipped ==
  (cfg.resume /\ cfg.skip_completed_seeds /\ ~cfg.recheck_seeds
   /\ pool.main \in {"running", "exit0"}) =>
    /\ \A s \in DoneBefore :
         /\ SeedLines(s, {"seed_done", "seed_state"}) = {}
         /\ Cardinality(SeedLines(s, {"skip_seed_already_done"})) <= 1
         /\ pool.main = "exit0" =>
              Cardinality(SeedLines(s, {"skip_seed_already_done"})) = 1
    /\ pool.main = "exit0" =>
         counters.skipped_seed_count >= Cardinality(DoneBefore)
    /\ {SeedA, SeedP} \subseteq DoneBefore =>
         /\ \A w \in Workers : local[w].nreq = 0
         /\ pool.main = "exit0" => counters.skipped_seed_count = 2

C18_Witness ==
  /\ cfg.resume /\ cfg.skip_completed_seeds /\ ~cfg.recheck_seeds
  /\ pool.run = 2 /\ pool.main = "exit0"
  /\ DoneBefore = {SeedA, SeedP}
  /\ Cardinality(SeedLines(SeedA, {"skip_seed_already_done"})) = 1
  /\ counters.skipped_seed_count = 2
  /\ \A w \in Workers : local[w].nreq = 0
  /\ \E q \in requests : q.kind = "robots"

\* ------------------------------------------------------------------------
\* The scope filters: one run of one pool thread over a listing that links
\* a file and a page on another host, a page outside the seed's directory,
\* the host's bare root (a URL with an empty path), a file and a sub-page
\* ------------------------------------------------------------------------
AwayPage == U("g", <<"x", "b">>, "")
PageOut == U("h", <<"y", "o">>, "")
Root == U("h", << >>, "")

PageC == U("h", <<"x", "c">>, "")
PageD == U("h", <<"x", "d">>, "")

\* PageC redirects to PageB, PageD to the file FileR; the listing links
\* PageB twice.
SiteScope ==
  [u \in {SeedA, FileM, FileR, PageB, PageC, PageD, Root} |->
     CASE u = SeedA -> Html(SeedA, "a",
                            <<Link(Away, FALSE), Link(AwayPage, FALSE),
                              Link(PageOut, FALSE), Link(Root, FALSE),
                              Link(FileM, FALSE), Link(PageD, FALSE),
                              Link(PageB, FALSE), Link(PageB, FALSE),
                              Link(PageC, FALSE)>>, "")
       [] u = FileM -> Pdf(FileM, "m")
       [] u = FileR -> Pdf(FileR, "r")
       [] u = PageB -> Html(PageB, "b", <<Link(FileM, TRUE), Link(FileR, FALSE)>>, "")
       [] u = PageC -> Html(PageB, "b", <<Link(FileM, TRUE), Link(FileR, FALSE)>>, "")
       [] u = PageD -> Pdf(FileR, "r")
       [] u = Root -> Html(Root, "r", << >>, "")]

InitScope ==
  \E same_domain_only, same_path_prefix_only \in BOOLEAN :
    \E rb \in {{AllowAll}, {Deny({FileM.path})}} :
      \E journal \in {<< >>, JournalOf(None)} :
       \E max_depth \in {0, 1} : \E max_pages \in {1, 5} :
        /\ cfg = [Flags(1, TRUE, TRUE, TRUE, FALSE, FALSE) EXCEPT
                    !.same_domain_only = same_domain_only,
                    !.same_path_prefix_only = same_path_prefix_only,
                    !.max_depth = max_depth, !.max_pages = max_pages]
        /\ env = Env(<<City(<<Count(SeedA, 1)>>)>>, rb, SiteScope, FALSE, {})
        /\ manifest = journal
        /\ disk = {}
        /\ cache = EmptyCache
        /\ robots = Robots0
        /\ next_allowed = Limiter0
        /\ report = Report0
        /\ counters = Counters0
        /\ pool = Pool0
        /\ clock = 0
        /\ requests = {}
        /\ local = [w \in Workers |-> Local0]

SpecScope == InitScope /\ [][NextCrawl]_vars

\* C19: with same_path_prefix_only every URL fetched as a page has the
\* seed's path or a path under the seed's prefix, and no fetch_error line is
\* journaled for a URL outside it.
C19_PagesUnderPrefix ==
  cfg.same_path_prefix_only =>
    /\ \A q \in requests :
         q.kind = "page" =>
           q.url.path = SeedA.path \/ UnderPrefix(q.url.path, SeedA.path)
    /\ \A i \in Events("fetch_error") :
         manifest[i].url.path = SeedA.path
           \/ UnderPrefix(manifest[i].url.path, SeedA.path)

Fetches(kinds) == {q \in requests : q.kind \in kinds}
PagesFetched == {q \in Fetches({"page"}) : Response(q.url).status = "ok"}

\* C21 as stated: with max_depth 0 the seed URL is the only URL the crawl
\* fetches, as a page or as a file, and no link of the seed page is queued.
C21_OnlySeedFetched ==
  cfg.max_depth = 0 =>
    /\ \A q \in Fetches({"page", "file"}) : q.url = SeedA
    /\ \A w \in Workers : \A k \in 1..Len(local[w].queued) :
         local[w].queued[k] = [url |-> SeedA, depth |-> 0]

\* C21 amended: with max_depth 0 the seed URL is the only URL fetched as a
\* page and no link of the seed page is queued; the minutes files the seed
\* page links are still downloaded.
C21_OnlySeedPageFetched ==
  cfg.max_depth = 0 =>
    /\ \A q \in Fetches({"page"}) : q.url = SeedA
    /\ \A w \in Workers : \A k \in 1..Len(local[w].queued) :
         local[w].queued[k] = [url |-> SeedA, depth |-> 0]

C21_Witness ==
  /\ cfg.max_depth = 0 /\ cfg.max_pages = 5
  /\ pool.main = "exit0"
  /\ \E i \in Now("saved_page") : manifest[i].page_url = SeedA
  /\ \E q \in Fetches({"file"}) : q.url = FileM
  /\ Cardinality(Fetches({"page"})) = 1
  /\ \E i \in Now("seed_done") : manifest[i].found_count = 1

\* C22: the pages fetched for a seed never exceed max_pages, and with
\* max_pages 1 one page request is made for a crawled seed although its page
\* has links to queue.
C22_PagesWithinMax ==
  /\ Cardinality(PagesFetched) <= cfg.max_pages
  /\ cfg.max_pages = 1 =>
       /\ Cardinality(Fetches({"page"})) <= 1
       /\ Now("seed_done") # {} => Cardinality(Fetches({"page"})) = 1

C22_Witness ==
  /\ cfg.max_pages = 1 /\ cfg.max_depth = 1
  /\ pool.main = "exit0"
  /\ Fetches({"page"}) # {}
  /\ \A q \in Fetches({"page"}) : q.url = SeedA
  /\ \E i \in Now("seed_done") : manifest[i].found_count = 1

\* The journal lines that stand for one processing of the HTML page with
\* final URL u (page saving is on: the page is saved or found saved, then
\* its links are enumerated).
Processed(u) ==
  {i \in RunLines(1) :
     /\ manifest[i].event \in {"saved_page", "skip_save_page_already_done"}
     /\ manifest[i].page_url = u}

\* C23: within the seed's crawl the page with a given final URL is
\* processed, and its links enumerated, at most once.
C23_FinalPageOnce ==
  \A u \in {SeedA, PageB, Root} : Cardinality(Processed(u)) <= 1

\* C24: within the seed's crawl no URL is in the FIFO twice.
C24_QueuedOnce ==
  \A w \in Workers : \A j, k \in 1..Len(local[w].queued) :
    local[w].queued[j].url = local[w].queued[k].url => j = k

\* The minutes-like link URLs on the pages the crawl has processed, and the
\* final URLs of its binary direct hits.
MinutesLinks ==
  UNION {{normalize_url(UrlJoin(u, env.site[u].body.links[k].href)) :
            k \in {j \in 1..Len(env.site[u].body.links) :
                     LET lk == env.site[u].body.links[j]
                         a == normalize_url(UrlJoin(u, lk.href))
                     IN /\ ~NotHttp(a)
                        /\ ~(cfg.same_domain_only /\ a.host # SeedA.host)
                        /\ looks_like_minutes_link(a, lk.kw, cfg.file_exts)}} :
         u \in {v \in {SeedA, PageB, Root} : Processed(v) # {}}}
DirectHits ==
  {normalize_url(Response(q.url).final_url) :
     q \in {r \in PagesFetched : is_probably_binary(Response(r.url).content_type)}}

\* C27: found_count of the seed's seed_done line is the number of distinct
\* minutes-like URLs of the crawl (link URLs and final URLs of direct hits),
\* and each distinct minutes-like link URL has exactly one
\* found_minutes_link line.
C27_FoundCount ==
  \A i \in Now("seed_done") :
    /\ manifest[i].found_count = Cardinality(MinutesLinks \cup DirectHits)
    /\ \A u \in MinutesLinks :
         Cardinality({j \in Now("found_minutes_link") : manifest[j].link_url = u}) = 1

\* ------------------------------------------------------------------------
\* The seed scheduler alone: main builds and orders the tasks of one input
\* record whose parent dict holds up to MaxSeeds URLs (on two hosts, without
\* a host, or empty) and whose grand_parent dict holds one URL or none
\* ------------------------------------------------------------------------
MaxSeeds == 3

Hostless == U("", <<"x">>, "")
SeedPool == {SeedA, SeedP, PageB, Away, AwayPage, Hostless, NoUrl}

UrlMaps ==
  {m \in UNION {[1..n -> {Count(u, IF u = SeedA THEN 2 ELSE 1) : u \in SeedPool}] :
                  n \in 0..MaxSeeds} :
     \A i, j \in 1..Len(m) : m[i].url = m[j].url => i = j}

InitSchedule ==
  \E parent \in UrlMaps : \E grand \in {<< >>, <<Count(FileM, 1)>>} :
    \E threshold \in 0..(MaxSeeds + 2) :
      Fresh([Flags(1, TRUE, TRUE, TRUE, TRUE, FALSE) EXCEPT !.threshold = threshold],
            Env(<<[prefecture |-> "p", city |-> "c", parent |-> parent,
                   grand_parent |-> grand]>>,
                {AllowAll}, SiteSmall, FALSE, {}))

SpecSchedule == InitSchedule /\ [][Startup]_vars

\* The tasks in the order main submits them, and the city_start line.
Submitted == [i \in 1..Len(pool.futures) |-> pool.futures[i].task]
CityStart == manifest[2]

\* C25: the record is crawled in mode parent with the URLs of its parent
\* dict exactly when the sum of the parent counts is at least the threshold
\* and the parent dict is not empty, and otherwise in mode grand_parent with
\* the URLs of its grand_parent dict.
C25_ModeByThreshold ==
  pool.main = "running" =>
    LET rec == env.records[1]
        by_parent == sum_counts(rec.parent) >= cfg.threshold /\ rec.parent # << >>
        chosen == IF by_parent THEN rec.parent ELSE rec.grand_parent
        mode == IF by_parent THEN "parent" ELSE "grand_parent"
    IN /\ CityStart.event = "city_start" /\ CityStart.mode = mode
       /\ {Submitted[i].seed : i \in 1..Len(Submitted)}
            = {chosen[i].url : i \in 1..Len(chosen)} \ {NoUrl}
       /\ \A i \in 1..Len(Submitted) : Submitted[i].mode = mode

C25_Witness ==
  /\ pool.main = "running"
  /\ Len(env.records[1].parent) = 2
  /\ sum_counts(env.records[1].parent) = 3
  /\ cfg.threshold = 3
  /\ env.records[1].grand_parent # << >>
  /\ CityStart.mode = "parent"
  /\ Len(Submitted) = 2

\* The tasks main hands to round_robin_by_netloc, the place of a task in
\* them, and its place among the tasks of its host.
Built == BuildTasks(env.records, cfg.threshold).tasks
PlaceIn(t) == CHOOSE i \in 1..Len(Built) : Built[i] = t
Turn(t) ==
  Cardinality({i \in 1..PlaceIn(t) : Built[i].seed.host = t.seed.host})
FirstOf(h) == CHOOSE i \in 1..Len(Built) :
                /\ Built[i].seed.host = h
                /\ \A j \in 1..(i - 1) : Built[j].seed.host # h

\* C26: the submitted tasks are a permutation of the built ones; tasks of
\* one host keep their order; the hosted tasks come in rounds, one task of
\* each host that still has one, the hosts in order of first appearance, so
\* that two tasks of one host are adjacent only when no other host has a
\* task left; the tasks without a host come last.
C26_RoundRobin ==
  pool.main = "running" =>
    /\ Len(Submitted) = Len(Built)
    /\ {Submitted[i] : i \in 1..Len(Submitted)} = {Built[i] : i \in 1..Len(Built)}
    /\ \A a, b \in 1..Len(Submitted) :
         a < b =>
           LET s == Submitted[a]
               t == Submitted[b]
           IN /\ s.seed.host = t.seed.host => PlaceIn(s) < PlaceIn(t)
              /\ s.seed.host = "" => t.seed.host = ""
              /\ (s.seed.host # "" /\ t.seed.host # "") =>
                   \/ Turn(s) < Turn(t)
                   \/ Turn(s) = Turn(t) /\ FirstOf(s.seed.host) < FirstOf(t.seed.host)
              /\ (b = a + 1 /\ s.seed.host = t.seed.host /\ s.seed.host # "") =>
                   \A c \in (b + 1)..Len(Submitted) :
                     Submitted[c].seed.host \in {s.seed.host, ""}

C26_Witness ==
  /\ pool.main = "running"
  /\ Len(Built) = 3
  /\ Built[1].seed.host = "h" /\ Built[2].seed.host = "h" /\ Built[3].seed.host = "g"
  /\ Submitted = <<Built[1], Built[3], Built[2]>>

\* ------------------------------------------------------------------------
\* The delay of a request: pool threads calling
\* limiter.wait(url, effective_delay(cfg, robots, url)) for URLs of one host
\* whose robots.txt answers every request alike
\* ------------------------------------------------------------------------
\* A thread is about to request a URL: lines 681, 855, 1181.
DelayCall(w) ==
  /\ local[w].pc = "idle"
  /\ local[w].ncall < MaxCalls
  /\ \E u \in {SeedA} :
       local' = [local EXCEPT ![w] =
         [StartDelay([local[w] EXCEPT !.ncall = @ + 1, !.cur = u])
            EXCEPT !.gp_after_fail = robots.cache[u.host] # None]]
  /\ UNCHANGED <<cfg, env, manifest, disk, cache, robots, next_allowed, report,
                 counters, pool, clock, requests>>

\* wait() has returned: the delay it was called with, and whether the call
\* began after the policy of the host had been stored.
DelayReturn(w) ==
  /\ local[w].pc = "fetch"
  /\ LET l == local[w]
     IN /\ requests' = requests \cup
             {[kind |-> "wait", url |-> l.cur, by |-> w, n |-> l.ncall,
               delay |-> l.w_delay, loaded |-> l.gp_after_fail]}
        /\ local' = [local EXCEPT ![w] = Reset(l)]
  /\ UNCHANGED <<cfg, env, manifest, disk, cache, robots, next_allowed, report,
                 counters, pool, clock>>

NextDelay ==
  \/ Tick
  \/ \E w \in Workers :
       \/ DelayCall(w)
       \/ GetParserLookup(w)
       \/ GetParserFetch(w)
       \/ GetParserStore(w)
       \/ GetParserLog(w)
       \/ EffectiveDelay(w)
       \/ WaitLock(w)
       \/ WaitSleep(w)
       \/ DelayReturn(w)

RobotsFiles ==
  {AllowAll, Policy({}, Some(Decimal(2, 0))), Policy({}, Some(Decimal(2, 5))),
   RobotsFailed}

InitDelay ==
  \E respect_robots \in BOOLEAN : \E delay_sec \in {0, 1, 3} :
    \E txt \in RobotsFiles :
      Fresh([Flags(2, respect_robots, FALSE, FALSE, FALSE, FALSE)
               EXCEPT !.delay_sec = delay_sec],
            Env(<< >>, {txt}, SiteSmall, FALSE, {}))

SpecDelay == InitDelay /\ [][NextDelay]_vars

Waits == {r \in requests : r.kind = "wait"}
RobotsTxtOf(h) == CHOOSE txt \in env.robots[h] : TRUE

\* C28: with robots respected, a wait for a host issued after its policy
\* was loaded with Crawl-delay c uses max(configured delay, c); when the
\* policy states no Crawl-delay, the load failed or robots are not
\* respected, the wait uses the configured delay.  (Delays in tenths of a
\* second.)
C28_DelayFromRobots ==
  \A r \in Waits :
    LET txt == RobotsTxtOf(r.url.host)
        stated == txt # RobotsFailed /\ txt.delay # None
    IN IF cfg.respect_robots /\ stated
       THEN r.loaded =>
              10 * r.delay = Max(10 * cfg.delay_sec,
                                 10 * txt.delay[1].whole + txt.delay[1].tenths)
       ELSE r.delay = cfg.delay_sec

\* ------------------------------------------------------------------------
\* Two pool threads, one task each: the same listing entered for two input
\* records, of one municipality or of two
\* ------------------------------------------------------------------------
InitCities ==
  \E city \in {"c", "d"} :
    \E rb \in {{AllowAll}, {Deny({FileM.path})}, {Deny({SeedA.path})}} :
      Fresh(Flags(2, TRUE, TRUE, TRUE, TRUE, FALSE),
            Env(<<City(<<Count(SeedA, 1)>>),
                  [City(<<Count(SeedA, 1)>>) EXCEPT !.city = city]>>,
                rb, SiteSmall, TRUE, {}))

SpecCities == InitCities /\ [][NextCrawl]_vars

\* C29: two threads that both found a final file URL not downloaded write
\* it to one path: the lines they journal for it name the same path and the
\* output directory holds one file of that URL, also when the two threads
\* crawl seeds of different municipalities.
C29_RaceWritesOnePath ==
  \A u \in DOMAIN env.site :
    /\ \A i, j \in DownloadLines(1, u) : manifest[i].path = manifest[j].path
    /\ Cardinality({p \in disk : p.dir = "files" /\ p.name = u}) <= 1

\* ------------------------------------------------------------------------
\* ManifestWriter alone: pool threads calling write(), each record tagged
\* with its thread and its number in the thread's program order
\* ------------------------------------------------------------------------
\* A thread has built a record and calls state.manifest.write(rec).
JournalCall(w) ==
  /\ local[w].pc = "idle"
  /\ local[w].ncall < MaxCalls
  /\ \E ev \in {"seed_start", "seed_done"} :
       LET l == [local[w] EXCEPT !.ncall = @ + 1]
           rec == [event |-> ev, by |-> w, n |-> l.ncall]
       IN /\ local' = [local EXCEPT ![w] = Log(l, rec, "count")]
          /\ requests' = requests \cup {[kind |-> "write", rec |-> rec]}
  /\ UNCHANGED <<cfg, env, manifest, disk, cache, robots, next_allowed, report,
                 counters, pool, clock>>

\* write() has returned.
JournalReturn(w) ==
  /\ local[w].pc = "count"
  /\ local' = [local EXCEPT ![w] = Reset(local[w])]
  /\ UNCHANGED <<cfg, env, manifest, disk, cache, robots, next_allowed, report,
                 counters, pool, clock, requests>>

NextJournal ==
  \E w \in Workers : JournalCall(w) \/ ManifestWrite(w) \/ JournalReturn(w)

InitJournal ==
  Fresh(Flags(2, FALSE, FALSE, FALSE, FALSE, FALSE),
        Env(<< >>, {AllowAll}, SiteSmall, FALSE, {}))

SpecJournal == InitJournal /\ [][NextJournal]_vars

LinesOf(rec) == {i \in 1..Len(manifest) : manifest[i] = rec}
InWrite(rec) == local[rec.by].pc = "log" /\ local[rec.by].rec = rec

\* C30: under every interleaving of threads calling write(), each line of
\* the journal is one whole record that was passed to write(), each record
\* is in the journal exactly once when its call has returned (and not
\* before its call), and the records of one thread are in the order of its
\* calls.
C30_WholeLinesInOrder ==
  /\ \A i \in 1..Len(manifest) : [kind |-> "write", rec |-> manifest[i]] \in requests
  /\ \A r \in requests :
       Cardinality(LinesOf(r.rec)) = IF InWrite(r.rec) THEN 0 ELSE 1
  /\ \A i, j \in 1..Len(manifest) :
       (i < j /\ manifest[i].by = manifest[j].by) => manifest[i].n < manifest[j].n

C30_Witness ==
  /\ Len(manifest) = 4
  /\ manifest[1].by = WorkerIds[1] /\ manifest[2].by = WorkerIds[2]
  /\ manifest[3].by = WorkerIds[1] /\ manifest[4].by = WorkerIds[2]
  /\ \A w \in Workers : local[w].pc = "idle"

\* ------------------------------------------------------------------------
\* The locks: each step of a thread at the grain of acquire and release.
\* The threads of the pool and the main thread take the steps in any order.
\* ------------------------------------------------------------------------
Locks == {"manifest", "cache", "robots", "limiter", "report", "counters"}

Acq(k) == [op |-> "acquire", lock |-> k]
Rel(k) == [op |-> "release", lock |-> k]
Net == [op |-> "net", lock |-> ""]
Sleep == [op |-> "sleep", lock |-> ""]
Disk == [op |-> "disk", lock |-> ""]

\* with lock: body
Under(k, body) == <<Acq(k)>> \o body \o <<Rel(k)>>

\* ManifestWriter.write lines 177-181: dumps and mkdir, then open, write and
\* close under the lock.
write_ops == <<Disk>> \o Under("manifest", <<Disk>>)

\* DomainRateLimiter.wait lines 459-465: the map under the lock, then the
\* sleep.
\* (Faulty variant wait_ops_sleep_locked: the sleep is inside the with block.)
wait_ops_sleep_locked(pc) ==
  IF pc = "w_lock" THEN Under("limiter", <<Sleep>>) ELSE << >>
wait_ops(pc) == IF pc = "w_lock" THEN Under("limiter", << >>) ELSE <<Sleep>>

\* RobotsManager._get_parser lines 378-415: lookup under the lock, GET
\* outside it, store under the lock, journal line outside it.
\* (Faulty variant get_parser_ops_log_locked: the journal line is written
\* before the registry's lock is released.)
get_parser_ops_log_locked(pc) ==
  CASE pc = "gp_lookup" -> Under("robots", << >>)
    [] pc = "gp_fetch" -> <<Net>>
    [] pc = "gp_store" -> Under("robots", write_ops)
    [] pc = "gp_log" -> << >>
get_parser_ops(pc) ==
  CASE pc = "gp_lookup" -> Under("robots", << >>)
    [] pc = "gp_fetch" -> <<Net>>
    [] pc = "gp_store" -> Under("robots", << >>)
    [] pc = "gp_log" -> write_ops

\* What the code does in the step a thread takes at pc.
StepOps(pc) ==
  CASE pc \in {"gp_lookup", "gp_fetch", "gp_store", "gp_log"} -> get_parser_ops(pc)
    [] pc \in {"w_lock", "w_sleep"} -> wait_ops(pc)
    [] pc \in {"seed_check", "check", "add"} -> Under("cache", << >>)
    [] pc = "fetch" -> <<Net>>
    [] pc = "save" -> <<Disk>>
    [] pc = "report_add" -> Under("report", << >>)
    [] pc = "log" -> write_ops
    [] pc = "count" -> Under("counters", << >>)
    \* main: lines 1088-1145, 1261-1271, 1273-1293 (write_robots_reports takes
    \* the report's lock at 243 and again in summary() at 221)
    [] pc = "init" -> write_ops
    [] pc = "collect" -> Under("counters", << >>)
    [] pc = "finish" -> <<Disk>> \o Under("report", << >>) \o <<Disk>>
                          \o Under("report", << >>) \o <<Disk>> \o write_ops \o write_ops

Steps ==
  {"gp_lookup", "gp_fetch", "gp_store", "gp_log", "w_lock", "w_sleep", "seed_check",
   "check", "add", "fetch", "save", "report_add", "log", "count", "init", "collect",
   "finish"}

Holder(k) == {w \in Workers : k \in local[w].held}

\* A thread enters a step.
StepEnter(w) ==
  /\ local[w].pc = "idle"
  /\ \E pc \in Steps :
       local' = [local EXCEPT ![w] = [@ EXCEPT !.pc = pc, !.ops = StepOps(pc)]]
  /\ UNCHANGED <<cfg, env, manifest, disk, cache, robots, next_allowed, report,
                 counters, pool, clock, requests>>

\* What is left of the step after its first operation.
Rest(l) ==
  IF Tail(l.ops) = << >> THEN [l EXCEPT !.pc = "idle", !.ops = << >>]
  ELSE [l EXCEPT !.ops = Tail(@)]

\* threading.Lock.acquire: blocks while any thread, the caller included,
\* holds the lock.
Acquire(w) ==
  /\ local[w].ops # << >>
  /\ Head(local[w].ops).op = "acquire"
  /\ Holder(Head(local[w].ops).lock) = {}
  /\ local' = [local EXCEPT ![w] =
       [Rest(local[w]) EXCEPT !.held = @ \cup {Head(local[w].ops).lock}]]
  /\ UNCHANGED <<cfg, env, manifest, disk, cache, robots, next_allowed, report,
                 counters, pool, clock, requests>>

Release(w) ==
  /\ local[w].ops # << >>
  /\ Head(local[w].ops).op = "release"
  /\ local' = [local EXCEPT ![w] =
       [Rest(local[w]) EXCEPT !.held = @ \ {Head(local[w].ops).lock}]]
  /\ UNCHANGED <<cfg, env, manifest, disk, cache, robots, next_allowed, report,
                 counters, pool, clock, requests>>

\* A request, a sleep or a file operation ends.
Perform(w) ==
  /\ local[w].ops # << >>
  /\ Head(local[w].ops).op \in {"net", "sleep", "disk"}
  /\ local' = [local EXCEPT ![w] = Rest(local[w])]
  /\ UNCHANGED <<cfg, env, manifest, disk, cache, robots, next_allowed, report,
                 counters, pool, clock, requests>>

NextLocks ==
  \E w \in Workers : StepEnter(w) \/ Acquire(w) \/ Release(w) \/ Perform(w)

InitLocks ==
  Fresh(Flags(2, TRUE, TRUE, TRUE, TRUE, FALSE),
        Env(<< >>, {AllowAll}, SiteSmall, FALSE, {}))

SpecLocks == InitLocks /\ [][NextLocks]_vars

Doing(w, op) == local[w].ops # << >> /\ Head(local[w].ops).op = op
Blocked(w) == Doing(w, "acquire") /\ Holder(Head(local[w].ops).lock) # {}

\* C31: a thread that is in a network request or asleep in the limiter
\* holds none of the resume-index, limiter, registry and manifest locks.
C31_NoLockAcrossNetOrSleep ==
  \A w \in Workers :
    (Doing(w, "net") \/ Doing(w, "sleep")) =>
      local[w].held \cap {"cache", "limiter", "robots", "manifest"} = {}

C31_Witness ==
  /\ Doing(WorkerIds[1], "sleep")
  /\ local[WorkerIds[2]].pc = "w_lock" /\ local[WorkerIds[2]].held = {"limiter"}

\* C40: no thread holds two locks at once, a lock has one holder, and the
\* threads never all wait for a lock: some thread that is in a step can go
\* on.
C40_OneLockAtATime ==
  /\ \A w \in Workers : Cardinality(local[w].held) <= 1
  /\ \A k \in Locks : Cardinality(Holder(k)) <= 1
  /\ (\E w \in Workers : Blocked(w)) =>
       \E w \in Workers : local[w].ops # << >> /\ ~Blocked(w)

C40_Witness ==
  /\ Blocked(WorkerIds[1]) /\ local[WorkerIds[1]].pc = "log"
  /\ local[WorkerIds[2]].pc = "gp_log" /\ local[WorkerIds[2]].held = {"manifest"}

\* ------------------------------------------------------------------------
\* DomainRateLimiter alone, every kind of call: pool threads calling wait()
\* for URLs of two hosts and for a URL without host, with and without delay
\* ------------------------------------------------------------------------
\* A thread calls limiter.wait(u, d); cur and w_delay keep the arguments.
WaitCall(w) ==
  /\ local[w].pc = "idle"
  /\ local[w].ncall < MaxCalls
  /\ \E u \in {FileM, Away, Hostless} : \E d \in {0, 1} :
       local' = [local EXCEPT ![w] =
         CallWait([local[w] EXCEPT !.ncall = @ + 1, !.cur = u, !.w_delay = d],
                  u, d, "lim_ret")]
  /\ UNCHANGED <<cfg, env, manifest, disk, cache, robots, next_allowed, report,
                 counters, pool, clock, requests>>

\* wait() has returned.
WaitDone(w) ==
  /\ local[w].pc = "lim_ret"
  /\ local' = [local EXCEPT ![w] = Reset(local[w])]
  /\ UNCHANGED <<cfg, env, manifest, disk, cache, robots, next_allowed, report,
                 counters, pool, clock, requests>>

NextWait ==
  \/ Tick
  \/ \E w \in Workers : WaitCall(w) \/ WaitLock(w) \/ WaitSleep(w) \/ WaitDone(w)

SpecWait == InitLimiter /\ [][NextWait]_vars

\* C32: no step lowers a host's next-allowed instant; the locked region of
\* a wait() with a positive delay for a hosted URL raises the entry of that
\* host and leaves the other hosts' entries; a wait() with delay <= 0 or
\* for a URL without host returns at once, leaving the map as it is and
\* never reaching the locked region or the sleep.
C32_NextAllowedMonotone ==
  [][/\ \A h \in Hosts :
          next_allowed[h] # None =>
            /\ next_allowed'[h] # None
            /\ next_allowed'[h][1] >= next_allowed[h][1]
     /\ \A w \in Workers :
          /\ (local[w].pc = "w_lock" /\ local'[w].pc # "w_lock") =>
               LET h == local[w].w_url.host
               IN /\ next_allowed'[h] # None
                  /\ next_allowed[h] # None => next_allowed'[h][1] > next_allowed[h][1]
                  /\ \A g \in Hosts \ {h} : next_allowed'[g] = next_allowed[g]
          /\ (local[w].pc = "idle" /\ local'[w].pc # "idle") =>
               LET early == local'[w].cur.host = "" \/ local'[w].w_delay <= 0
               IN /\ next_allowed' = next_allowed
                  /\ local'[w].pc = IF early THEN "lim_ret" ELSE "w_lock"
          /\ local'[w].pc \in {"w_lock", "w_sleep"} =>
               local'[w].cur.host # "" /\ local'[w].w_delay > 0
    ]_vars

C32_Witness ==
  /\ next_allowed["h"] # None /\ next_allowed["h"][1] >= 2
  /\ next_allowed["g"] # None
  /\ local[WorkerIds[1]].pc = "lim_ret" /\ local[WorkerIds[1]].cur = Hostless
  /\ local[WorkerIds[2]].pc = "lim_ret" /\ local[WorkerIds[2]].cur = FileM
  /\ local[WorkerIds[2]].w_delay = 0

\* ------------------------------------------------------------------------
\* One run, with its input file or without it, with or without
\* --overwrite-manifest, over an empty journal or the journal of a run that
\* crawled the seed (env.prior keeps that journal)
\* ------------------------------------------------------------------------
PriorJournals ==
  {<< >>, JournalOf(None),
   JournalOf(Some(Meta("", "", "a"))) \o
     <<[event |-> "downloaded_file", prefecture |-> "p", city |-> "c",
        file_url |-> FileM, path |-> FilePath(FileM)]>>}

InitStart ==
  \E input_exists, overwrite_manifest, resume \in BOOLEAN :
    \E journal \in PriorJournals :
      \E rb \in {{AllowAll}, {Deny({FileM.path})}} :
        /\ cfg = [Flags(1, TRUE, resume, TRUE, TRUE, FALSE)
                    EXCEPT !.overwrite_manifest = overwrite_manifest]
        /\ env = [Env(<<City(<<Count(SeedA, 1)>>)>>, rb, SiteSmall, TRUE, {})
                    EXCEPT !.input_exists = input_exists]
                 @@ [prior |-> journal]
        /\ manifest = journal
        /\ disk = {manifest[i].path : i \in Events("downloaded_file")}
        /\ cache = EmptyCache
        /\ robots = Robots0
        /\ next_allowed = Limiter0
        /\ report = Report0
        /\ counters = Counters0
        /\ pool = Pool0
        /\ clock = 0
        /\ requests = {}
        /\ local = [w \in Workers |-> Local0]

SpecStart == InitStart /\ [][NextCrawl]_vars

\* C33: a run whose input file is missing ends with exit code 2 having
\* appended no line to the journal, submitted no task and sent no request;
\* a run with --overwrite-manifest builds its resume index from the
\* truncated journal, so the index is empty when the run starts.
C33_MissingInputAndOverwrite ==
  /\ [](~env.input_exists =>
          /\ pool.main \in {"init", "exit2"}
          /\ requests = {}
          /\ pool.futures = << >>
          /\ \A w \in Workers : local[w].pc = "idle"
          /\ manifest = IF cfg.overwrite_manifest /\ pool.main = "exit2"
                        THEN << >> ELSE env.prior)
  /\ [][(pool.main = "init" /\ pool'.main # "init") =>
          /\ ~env.input_exists => pool'.main = "exit2"
          /\ (env.input_exists /\ cfg.overwrite_manifest) =>
               /\ cache' = EmptyCache
               /\ manifest'[1] = StartRec
       ]_vars

C33_Witness ==
  /\ cfg.overwrite_manifest /\ cfg.resume
  /\ Len(env.prior) = 3
  /\ pool.main = "exit0"
  /\ manifest[1] = StartRec
  /\ \E i \in 1..Len(manifest) :
       manifest[i].event = "downloaded_file" /\ manifest[i].file_url = FileM

C33_WitnessExit ==
  /\ pool.main = "exit2"
  /\ Len(env.prior) = 3
  /\ manifest = env.prior

\* ------------------------------------------------------------------------
\* One seed whose listing links pages that are minutes-like by anchor text
\* or by URL hint, a file, and a plain page that links further pages; with
\* and without file download, to depth 0, 1 or 2
\* ------------------------------------------------------------------------
PageK == U("h", <<"x", "k">>, "")
PageG == U("h", <<"x", "gijiroku">>, "")

SiteLinks ==
  [u \in {SeedA, FileM, PageB, PageC, PageD, PageK, PageG} |->
     CASE u = SeedA -> Html(SeedA, "a",
                            <<Link(PageK, TRUE), Link(PageG, FALSE), Link(FileM, FALSE),
                              Link(PageB, FALSE)>>, "")
       [] u = FileM -> Pdf(FileM, "m")
       [] u = PageB -> Html(PageB, "b", <<Link(PageK, TRUE), Link(PageC, FALSE)>>, "")
       [] u = PageC -> Html(PageC, "c", <<Link(PageD, FALSE), Link(PageG, FALSE)>>, "")
       [] u = PageD -> Html(PageD, "d", << >>, "")
       [] u = PageK -> Html(PageK, "k", <<Link(PageD, FALSE)>>, "")
       [] u = PageG -> Html(PageG, "g", <<Link(PageD, FALSE)>>, "")]

InitLinks ==
  \E download_files \in BOOLEAN : \E max_depth \in {0, 1, 2} :
    \E rb \in {{AllowAll}, {Deny({FileM.path})}} :
      \E journal \in {<< >>, JournalOf(None)} :
        /\ cfg = [Flags(1, TRUE, TRUE, TRUE, FALSE, FALSE) EXCEPT
                    !.download_files = download_files,
                    !.max_depth = max_depth, !.max_pages = 5]
        /\ env = Env(<<City(<<Count(SeedA, 1)>>)>>, rb, SiteLinks, FALSE, {})
        /\ manifest = journal
        /\ disk = {}
        /\ cache = EmptyCache
        /\ robots = Robots0
        /\ next_allowed = Limiter0
        /\ report = Report0
        /\ counters = Counters0
        /\ pool = Pool0
        /\ clock = 0
        /\ requests = {}
        /\ local = [w \in Workers |-> Local0]

SpecLinks == InitLinks /\ [][NextCrawl]_vars

\* The link occurrences of the page a URL answers with: target and judgement.
Occurrences(u) ==
  LET res == Response(u)
  IN IF res.status # "ok" \/ is_probably_binary(res.content_type) THEN {}
     ELSE {[url |-> normalize_url(UrlJoin(normalize_url(res.final_url),
                                          res.body.links[i].href)),
            minutes |-> looks_like_minutes_link(
                          normalize_url(UrlJoin(normalize_url(res.final_url),
                                                res.body.links[i].href)),
                          res.body.links[i].kw, cfg.file_exts)] :
             i \in 1..Len(res.body.links)}

\* The URLs that occurrences not judged minutes-like lead to in d steps
\* from the seed.
RECURSIVE PlainAt(_)
PlainAt(d) ==
  IF d = 0 THEN {SeedA}
  ELSE UNION {{o.url : o \in {x \in Occurrences(u) : ~x.minutes}} : u \in PlainAt(d - 1)}

\* C34: a queue entry of depth d >= 1 is d <= max-depth links, none of them
\* judged minutes-like, away from the seed; so are the pages requested; a
\* URL is requested as a file only with download enabled and a suffix of
\* the extension set; and the minutes-like occurrences of every page that
\* was read are in the journal as found_minutes_link.
C34_MinutesLinksNotQueued ==
  /\ \A w \in Workers : \A k \in 1..Len(local[w].queued) :
       LET e == local[w].queued[k]
       IN e.depth \in 0..cfg.max_depth /\ e.url \in PlainAt(e.depth)
  /\ \A q \in Fetches({"page"}) : \E d \in 0..cfg.max_depth : q.url \in PlainAt(d)
  /\ \A q \in Fetches({"file"}) :
       cfg.download_files /\ Suffix(q.url) \in cfg.file_exts
  /\ pool.main = "exit0" =>
       \A q \in PagesFetched : \A o \in Occurrences(q.url) :
         o.minutes => \E i \in Now("found_minutes_link") : manifest[i].link_url = o.url

C34_Witness ==
  /\ cfg.max_depth = 2 /\ cfg.download_files
  /\ pool.main = "exit0"
  /\ \E q \in Fetches({"page"}) : q.url = PageC
  /\ \E q \in Fetches({"file"}) : q.url = FileM
  /\ \E i \in Now("found_minutes_link") : manifest[i].link_url = PageK
  /\ \E i \in Now("found_minutes_link") : manifest[i].link_url = PageG
  /\ \A q \in requests : q.url \notin {PageK, PageG, PageD}

\* ------------------------------------------------------------------------
\* The order of a run's journal
\* ------------------------------------------------------------------------
TerminalEvents == SkipEvents \cup {"seed_done"}
TerminalLines == {i \in 1..Len(manifest) : manifest[i].event \in TerminalEvents}

\* A thread that has journaled the terminal line of its task and has not
\* returned yet: lines 1176-1178, 1205-1207, 1226-1228, 1253-1256.
PostTerminal(l) == l.pc = "count" \/ (l.pc = "add" /\ l.what = "completed")

\* C35: the run's journal begins with its one start line; each task that
\* returned has journaled one seed_done or skip line, and the thread
\* journals nothing between that line and its return; each task an
\* exception left has one seed_task_exception line once main has collected
\* it; robots_report_written and done are the last two lines, once each,
\* written when every task has been collected.
C35_TaskRecordsEndOnce ==
  /\ [](pool.main # "init" =>
          /\ manifest[1] = StartRec
          /\ Cardinality(Events("start")) = 1
          /\ Cardinality(TerminalLines)
               = Cardinality({f \in 1..Len(pool.futures) :
                                /\ pool.futures[f].state \in {"done", "collected"}
                                /\ ~pool.futures[f].exc})
                 + Cardinality({w \in Workers : PostTerminal(local[w])})
          /\ Cardinality(Events("seed_task_exception"))
               = Cardinality({f \in Escaped : pool.futures[f].state = "collected"})
          /\ IF pool.main = "exit0"
             THEN /\ \A f \in 1..Len(pool.futures) : pool.futures[f].state = "collected"
                  /\ Cardinality(TerminalLines) + Cardinality(Events("seed_task_exception"))
                       = Len(pool.futures)
                  /\ Events("robots_report_written") = {Len(manifest) - 1}
                  /\ Events("done") = {Len(manifest)}
             ELSE Events("robots_report_written") \cup Events("done") = {})
  /\ [][\A w \in Workers :
          /\ (/\ local'[w] # local[w]
              /\ manifest' # manifest
              /\ manifest'[Len(manifest')].event \in TerminalEvents)
               => PostTerminal(local'[w])
          /\ (PostTerminal(local'[w]) /\ ~PostTerminal(local[w]))
               => /\ Len(manifest') = Len(manifest) + 1
                  /\ manifest'[Len(manifest')].event \in TerminalEvents
          /\ (PostTerminal(local[w]) /\ local'[w] # local[w])
               => /\ manifest' = manifest
                  /\ local'[w].pc = "idle"
                  /\ pool'.futures[local[w].fut].state = "done"
       ]_vars

C35_Witness ==
  /\ pool.main = "exit0"
  /\ Len(pool.futures) = 2
  /\ Cardinality(Events("seed_done")) = 1
  /\ \E i \in Events("seed_done") :
       \E j \in Events("skip_seed_already_done_robots_disallow") : i < j

\* ------------------------------------------------------------------------
\* A resumed run of two pool threads: the journal of an earlier run that
\* completed SeedA (or no journal), two tasks that are the same listing
\* twice or the listing and a file, and a server that answers the listing's
\* revalidation every time or, for the seeds in env.flaky, not every time;
\* with and without --recheck-seeds
\* ------------------------------------------------------------------------
ResumeMeta == Meta("v1", "", "a")

InitResume ==
  \E journal \in {<< >>, JournalOf(Some(ResumeMeta))} :
    \E seeds \in {<<Count(SeedA, 1), Count(SeedAFrag, 1)>>,
                  <<Count(SeedA, 1), Count(SeedP, 1)>>} :
      \E rb \in {{AllowAll}, {Deny({SeedA.path})}} : \E flaky \in {{}, {SeedA}} :
       \E recheck \in BOOLEAN :
        /\ cfg = Flags(2, TRUE, TRUE, TRUE, recheck, FALSE)
        /\ env = [Env(<<City(seeds)>>, rb,
                      SiteWith(Ok(SeedA, "text/html", Body("b", << >>, FALSE), "v2", "")),
                      TRUE, {})
                    EXCEPT !.flaky = flaky]
        /\ manifest = journal
        /\ disk = {}
        /\ cache = EmptyCache
        /\ robots = Robots0
        /\ next_allowed = Limiter0
        /\ report = Report0
        /\ counters = Counters0
        /\ pool = Pool0
        /\ clock = 0
        /\ requests = {}
        /\ local = [w \in Workers |-> Local0]

SpecResume == InitResume /\ [][NextCrawl]_vars

RECURSIVE FoundSum(_)
FoundSum(lines) ==
  IF lines = {} THEN 0
  ELSE LET i == CHOOSE j \in lines : TRUE
       IN manifest[i].found_count + FoundSum(lines \ {i})

NowSkipped == UNION {Now(ev) : ev \in SkipEvents}

\* C36: the done line's total_found_links is the sum of found_count over the
\* run's seed_done lines and its skipped_seed_count is the number of the
\* run's skip_seed_* lines, under every interleaving of the pool threads.
C36_CountersMatchJournal ==
  \A i \in Now("done") :
    /\ manifest[i].total_found_links = FoundSum(Now("seed_done"))
    /\ manifest[i].skipped_seed_count = Cardinality(NowSkipped)

\* Both tasks were skipped, by two threads; or one was skipped and the other
\* found a file.
C36_Witness ==
  /\ \E i \in Now("done") :
       /\ manifest[i].skipped_seed_count = 2
       /\ \E j, k \in NowSkipped : j # k
  /\ \E r1, r2 \in requests : r1.by # r2.by

C36_WitnessMixed ==
  \E i \in Now("done") :
    /\ manifest[i].skipped_seed_count = 1
    /\ manifest[i].total_found_links = 1

\* C37: when a run started with resume enabled has ended, the resume index
\* in memory is the index load_manifest_cache builds from the journal file.
C37_IndexEqualsReplay ==
  (pool.main = "exit0" /\ cfg.resume) => cache = load_manifest_cache(manifest)

\* The resume index the run started with: the replay of the lines that were
\* in the journal before its start line.
IndexAtStart == load_manifest_cache(SubSeq(manifest, 1, Cardinality(RunLines(0))))

\* C38: a task whose seed was not in completedSeeds when the run started
\* never ends with a skip_seed_* line: every skip line the run journals
\* names a seed the index held at the start.
C38_FreshSeedsCrawled ==
  \A i \in NowSkipped : manifest[i].seed_url \in IndexAtStart.completed_seeds

\* ------------------------------------------------------------------------
\* Termination: a run of one pool thread and two tasks (a listing and a
\* file) on a site whose
\* pages link each other in cycles, link themselves, and link a page the
\* server does not have; robots.txt allows everything or denies one page;
\* the page budget is reached before the site is exhausted or not; the
\* listing was completed by an earlier run or not
\* ------------------------------------------------------------------------
PageGone == U("h", <<"x", "gone">>, "")

SiteLoop ==
  [u \in {SeedA, SeedP, PageB, PageC, PageD} |->
     CASE u = SeedA -> Html(SeedA, "a",
                            <<Link(SeedA, FALSE), Link(PageB, FALSE),
                              Link(PageGone, FALSE), Link(PageC, FALSE)>>, "")
       [] u = SeedP -> Pdf(SeedP, "n")
       [] u = PageB -> Html(PageB, "b", <<Link(SeedA, FALSE), Link(PageD, FALSE)>>, "")
       [] u = PageC -> Html(PageC, "c", <<Link(PageB, FALSE), Link(PageD, FALSE)>>, "")
       [] u = PageD -> Html(PageD, "d", <<Link(PageB, FALSE), Link(PageC, FALSE)>>, "")]

InitLive ==
  \E max_pages \in {2, 5} :
    \E rb \in {{AllowAll}, {Deny({PageC.path})}} :
      \E journal \in {<< >>, JournalOf(None)} :
        /\ cfg = [Flags(1, TRUE, TRUE, TRUE, FALSE, FALSE) EXCEPT
                    !.save_pages = FALSE,
                    !.max_depth = 3, !.max_pages = max_pages]
        /\ env = Env(<<City(<<Count(SeedA, 1), Count(SeedP, 1)>>)>>, rb, SiteLoop,
                     FALSE, {})
        /\ manifest = journal
        /\ disk = {}
        /\ cache = EmptyCache
        /\ robots = Robots0
        /\ next_allowed = Limiter0
        /\ report = Report0
        /\ counters = Counters0
        /\ pool = Pool0
        /\ clock = 0
        /\ requests = {}
        /\ local = [w \in Workers |-> Local0]

\* The scheduler does not leave the process idle while a thread can take a
\* step: requests time out, sleeps end, locks are released.
SpecLive == InitLive /\ [][NextCrawl]_vars /\ WF_vars(NextCrawl)

\* The pages a thread has requested and got as HTML.
FetchedHtml(log, w) ==
  {normalize_url(Response(r.url).final_url) :
     r \in {q \in log : /\ q.by = w /\ q.kind = "page"
                             /\ Response(q.url).status = "ok"
                             /\ ~is_probably_binary(Response(q.url).content_type)}}

\* C39: the page counter never passes max-pages; a failed page fetch and a
\* robots denial leave the queue and the counter as they are; the queue
\* grows only while the links of a page fetched as HTML are read; and under
\* fair scheduling every task ends and the run writes done.
C39_CrawlTerminates ==
  /\ [](\A w \in Workers : local[w].pages_fetched <= cfg.max_pages)
  /\ [][\A w \in Workers :
          LET l == local[w]
              l2 == local'[w]
          IN /\ (/\ l.pc = "fetch" /\ l.site = "page"
                 /\ Response(l.cur).status # "ok" /\ l2 # l)
                  => /\ l2.queued = l.queued
                     /\ l2.pages_fetched = l.pages_fetched
                     /\ l2.cur \in l2.visited_pages
             /\ (l2.pc = "report_add" /\ l2.site = "page" /\ l2 # l)
                  => /\ l2.queued = l.queued
                     /\ l2.pages_fetched = l.pages_fetched
             /\ Len(l2.queued) > Len(l.queued)
                  => /\ l2.final_page_url \in FetchedHtml(requests', w)
                     /\ l.pc # "report_add"
                     /\ l2.pages_fetched >= 1
       ]_vars
  /\ <>(pool.main = "exit0" /\ Now("done") # {})

\* The run ended after a crawl that stopped at the page budget with pages
\* still queued, after a failed fetch and a robots denial.
C39_Witness ==
  /\ pool.main = "exit0"
  /\ Now("done") # {}
  /\ Now("fetch_error") # {}
  /\ Now("robots_disallow") # {}
  /\ Cardinality({r \in requests : r.kind = "page"}) >= 4

====
